---- MODULE Spec2Model ----
(***************************************************************************)
(* State-machine model of the air_ecmap EC pipeline (validation, Step 1    *)
(* prefilter, Step 2 OC, Step 3 EC, Step 4 profile schema), of the step    *)
(* functions called on their own, and of the mapping pipeline.             *)
(*                                                                         *)
(* Representation.                                                         *)
(*   token   : a string split at the delimiter, i.e. a sequence of         *)
(*             segments; "Region.EU" is <<"Region","EU">>.  The absent     *)
(*             token (Python None) is the empty sequence.                  *)
(*   tuple   : a Python dict over taxonomy keys, kept as the sequence of   *)
(*             its items <<key, token>> in insertion order, because the    *)
(*             code's dedup key is tuple(tup.items()).                     *)
(*   id-keyed dicts (oc, ec, artifacts) : functions over the key set.      *)
(*   a call that may raise returns a record [exc, arg, val].               *)
(***************************************************************************)
EXTENDS Integers, Sequences, FiniteSets, TLC

----------------------------------------------------------------------------
(* Generic helpers: Python list / dict primitives.                         *)

Ok(v) == [exc |-> "none", arg |-> "", val |-> v]

Raise(e, a) == [exc |-> e, arg |-> a, val |-> <<>>]

MinOf(S) == CHOOSE x \in S : \A y \in S : x <= y

Reverse(s) == [i \in 1..Len(s) |-> s[Len(s) + 1 - i]]

RECURSIVE Concat(_)
Concat(ss) == IF ss = <<>> THEN <<>> ELSE Head(ss) \o Concat(Tail(ss))

Range(s) == {s[i] : i \in DOMAIN s}

HasKey(t, k) == \E i \in DOMAIN t : t[i][1] = k

Get(t, k) == t[CHOOSE i \in DOMAIN t : t[i][1] = k][2]

DictKeys(t) == {t[i][1] : i \in DOMAIN t}

(* Python dict equality: same items, whatever the insertion order. *)
DictEq(a, b) == Range(a) = Range(b)

----------------------------------------------------------------------------
(* Token algebra (step1.py, step2.py and step3.py carry identical copies). *)

NoToken == <<>>

(* str.lower() on one segment, for the segments used in this model. *)
LowerSeg(s) ==
    CASE s = "Region" -> "region"
      [] s = "Channel" -> "channel"
      [] s = "EU" -> "eu"
      [] s = "DE" -> "de"
      [] s = "US" -> "us"
      [] s = "B2B" -> "b2b"
      [] s = "B2C" -> "b2c"
      [] s = "<Any>" -> "<any>"
      [] OTHER -> s

_norm(token, case_sensitive) ==
    IF case_sensitive THEN token ELSE [i \in DOMAIN token |-> LowerSeg(token[i])]

(* d == a or d.startswith(a + delimiter), on segment sequences. *)
_is_ancestor(ancestor, descendant, case_sensitive) ==
    LET a == _norm(ancestor, case_sensitive)
        d == _norm(descendant, case_sensitive)
    IN  \/ d = a
        \/ /\ Len(d) > Len(a)
           /\ SubSeq(d, 1, Len(a)) = a

_intersect_token(left, right, placeholder, case_sensitive) ==
    IF _norm(left, case_sensitive) = _norm(placeholder, case_sensitive) THEN right
    ELSE IF _norm(right, case_sensitive) = _norm(placeholder, case_sensitive) THEN left
    ELSE IF _norm(left, case_sensitive) = _norm(right, case_sensitive) THEN left
    ELSE IF _is_ancestor(left, right, case_sensitive) THEN right
    ELSE IF _is_ancestor(right, left, case_sensitive) THEN left
    ELSE NoToken

----------------------------------------------------------------------------
(* Tuple algebra.                                                          *)

RECURSIVE DedupFrom(_, _, _)
DedupFrom(tuples, i, out) ==
    IF i > Len(tuples) THEN out
    ELSE IF \E j \in DOMAIN out : out[j] = tuples[i]
         THEN DedupFrom(tuples, i + 1, out)
         ELSE DedupFrom(tuples, i + 1, Append(out, tuples[i]))

(* A dedup that keeps each tuple at its last occurrence. *)
DedupKeepLast(tuples) == Reverse(DedupFrom(Reverse(tuples), 1, <<>>))

_dedup_exact_ordered(tuples) == DedupFrom(tuples, 1, <<>>)

(* Steps 2 and 3: left[key] and right[key] raise KeyError on a missing key; *)
(* the keys are visited in taxonomy order and the first event decides.      *)
RECURSIVE IntersectTupleFrom(_, _, _, _, _)
IntersectTupleFrom(left, right, taxonomy, i, out) ==
    IF i > Len(taxonomy.keys) THEN [exc |-> "none", arg |-> "", defined |-> TRUE, val |-> out]
    ELSE LET key == taxonomy.keys[i] IN
         IF ~HasKey(left, key) \/ ~HasKey(right, key)
         THEN [exc |-> "KeyError", arg |-> key, defined |-> FALSE, val |-> <<>>]
         ELSE LET tok == _intersect_token(Get(left, key), Get(right, key),
                                          taxonomy.placeholders[key], taxonomy.caseSensitive)
              IN  IF tok = NoToken
                  THEN [exc |-> "none", arg |-> "", defined |-> FALSE, val |-> <<>>]
                  ELSE IntersectTupleFrom(left, right, taxonomy, i + 1, Append(out, <<key, tok>>))

(* The tuple meet with a missing key read as an undefined meet. *)
IntersectTupleMissingUndefined(left, right, taxonomy) ==
    IF \E i \in DOMAIN taxonomy.keys :
          ~HasKey(left, taxonomy.keys[i]) \/ ~HasKey(right, taxonomy.keys[i])
    THEN [exc |-> "none", arg |-> "", defined |-> FALSE, val |-> <<>>]
    ELSE IntersectTupleFrom(left, right, taxonomy, 1, <<>>)

_intersect_tuple(left, right, taxonomy) == IntersectTupleFrom(left, right, taxonomy, 1, <<>>)

(* Cross product in left-major order; the first KeyError aborts the loop. *)
(* The outcome of the nested loops of _t_intersect, given the results *)
(* res of the meets in left-major order.                               *)
TIntersectFold(res) ==
    LET errs == {p \in DOMAIN res : res[p].exc # "none"}
        defd == SelectSeq(res, LAMBDA r : r.defined)
    IN  IF errs # {} THEN Raise("KeyError", res[MinOf(errs)].arg)
        ELSE Ok(_dedup_exact_ordered([p \in DOMAIN defd |-> defd[p].val]))

_t_intersect(left_set, right_set, taxonomy) ==
    TIntersectFold([p \in 1..(Len(left_set) * Len(right_set)) |->
                      _intersect_tuple(left_set[((p - 1) \div Len(right_set)) + 1],
                                       right_set[((p - 1) % Len(right_set)) + 1], taxonomy)])

_is_descendant_on_all_keys(maybe_descendant, maybe_ancestor, taxonomy) ==
    LET cs == taxonomy.caseSensitive
        keys == taxonomy.keys
    IN  /\ \A i \in DOMAIN keys :
              _is_ancestor(Get(maybe_ancestor, keys[i]), Get(maybe_descendant, keys[i]), cs)
        /\ \E i \in DOMAIN keys :
              _norm(Get(maybe_ancestor, keys[i]), cs) # _norm(Get(maybe_descendant, keys[i]), cs)

(* Exact dedup only: descendants of a listed tuple stay. *)
CollapseNone(tuples, taxonomy) == _dedup_exact_ordered(tuples)

(* A collapse that drops only the first tuple that has a listed strict *)
(* ancestor, and keeps every later one.                                 *)
CollapseFirstOnly(tuples, taxonomy) ==
    LET deduped == _dedup_exact_ordered(tuples)
        dominated == {i \in DOMAIN deduped :
                        \E j \in DOMAIN deduped :
                            j # i /\ _is_descendant_on_all_keys(deduped[i], deduped[j], taxonomy)}
    IN  IF dominated = {} THEN deduped
        ELSE [p \in 1..(Len(deduped) - 1) |->
                 IF p < MinOf(dominated) THEN deduped[p] ELSE deduped[p + 1]]

_collapse_ancestor_preferred(tuples, taxonomy) ==
    LET deduped == _dedup_exact_ordered(tuples)
        keep == {i \in DOMAIN deduped :
                    ~\E j \in DOMAIN deduped :
                        j # i /\ _is_descendant_on_all_keys(deduped[i], deduped[j], taxonomy)}
        idx == SelectSeq([i \in DOMAIN deduped |-> i], LAMBDA i : i \in keep)
    IN  [p \in DOMAIN idx |-> deduped[idx[p]]]

----------------------------------------------------------------------------
(* Validation layer (validation.py).  A validator returns "" when the      *)
(* input is accepted and the ValidationError message otherwise.  Inputs of *)
(* this model are well-typed, so the isinstance checks always pass; the    *)
(* per-index / per-key part of a message is left out of the message text.  *)

ErrorKinds == {"Validation", "Step1", "Step2", "Step3", "Step4"}

(* reason is kept as the sequence of the parts the f-string concatenates. *)
ReasonIsEmpty(reason) == \A i \in DOMAIN reason : reason[i] = ""

build_error_envelope(error, reason, details) ==
    IF error \notin ErrorKinds THEN Raise("ValidationError", "error type is not allowed")
    ELSE IF ReasonIsEmpty(reason) THEN Raise("ValidationError", "reason must be non-empty string")
    ELSE Ok([error |-> error, reason |-> reason, details |-> details])

IsUniqueSeq(s) == Cardinality(Range(s)) = Len(s)

(* The first non-empty message of a sequence of messages, "" if none. *)
FirstMsg(msgs) ==
    LET bad == {i \in DOMAIN msgs : msgs[i] # ""}
    IN  IF bad = {} THEN "" ELSE msgs[MinOf(bad)]

NormSet(tokens, cs) == {_norm(tokens[i], cs) : i \in DOMAIN tokens}

TaxonomyKeyMsg(taxonomy, key) ==
    LET cs == taxonomy.caseSensitive
        ph == taxonomy.placeholders[key]
        cats == taxonomy.categories[key]
        norm_cats == NormSet(cats, cs)
    IN  IF ph = NoToken THEN "taxonomy.placeholders[key] must be non-empty string"
        ELSE IF Cardinality(norm_cats) # Len(cats) THEN "taxonomy.categories[key] contains duplicates"
        ELSE IF _norm(ph, cs) \in norm_cats THEN "Placeholders must not appear in taxonomy.categories"
        ELSE IF \E i \in DOMAIN cats : \E idx \in 1..(Len(cats[i]) - 1) :
                    _norm(SubSeq(cats[i], 1, idx), cs) \notin norm_cats
             THEN "taxonomy.categories for key must be ancestor-closed"
        ELSE ""

TaxonomyDefaultMsg(taxonomy, key) ==
    LET cs == taxonomy.caseSensitive
        tok == taxonomy.defaults[key]
    IN  IF _norm(tok, cs) \notin NormSet(taxonomy.categories[key], cs)
        THEN "taxonomy.defaults values must be concrete categories and not placeholders"
        ELSE IF _norm(tok, cs) = _norm(taxonomy.placeholders[key], cs)
        THEN "Placeholders must not appear in taxonomy.defaults"
        ELSE ""

validate_taxonomy(taxonomy) ==
    LET keys == taxonomy.keys
        key_set == Range(keys)
    IN  IF ~IsUniqueSeq(keys) THEN "taxonomy.keys must be unique"
        ELSE IF DOMAIN taxonomy.placeholders # key_set
        THEN "taxonomy.placeholders must define one placeholder per taxonomy key"
        ELSE IF DOMAIN taxonomy.categories # key_set
        THEN "taxonomy.categories must define category list per taxonomy key"
        ELSE IF ~(DOMAIN taxonomy.defaults \subseteq key_set)
        THEN "taxonomy.defaults keys must be subset of taxonomy.keys"
        ELSE LET perKey == FirstMsg([i \in DOMAIN keys |-> TaxonomyKeyMsg(taxonomy, keys[i])])
                 (* defaults.items() follows the insertion order of defaults; every *)
                 (* taxonomy of this model lists its defaults in taxonomy-key order *)
                 dkeys == SelectSeq(keys, LAMBDA k : k \in DOMAIN taxonomy.defaults)
             IN  IF perKey # "" THEN perKey
                 ELSE FirstMsg([i \in DOMAIN dkeys |-> TaxonomyDefaultMsg(taxonomy, dkeys[i])])

_validate_tuple_tokens(tuple_obj, taxonomy) ==
    LET cs == taxonomy.caseSensitive IN
    IF ~(DictKeys(tuple_obj) \subseteq Range(taxonomy.keys))
    THEN "tuple keys must be subset of taxonomy.keys"
    ELSE IF \E i \in DOMAIN tuple_obj :
              LET key == tuple_obj[i][1]
                  normalized == _norm(tuple_obj[i][2], cs)
              IN  /\ normalized \notin NormSet(taxonomy.categories[key], cs)
                  /\ normalized # _norm(taxonomy.placeholders[key], cs)
    THEN "token is not a valid CATEGORY or PLACEHOLDER for key"
    ELSE ""

validate_policy(policy, taxonomy) ==
    LET t == validate_taxonomy(taxonomy)
        policy_keys == policy.policyKeys
        legal == policy.legalTuples
    IN  IF t # "" THEN t
        ELSE IF ~IsUniqueSeq(policy_keys) THEN "policy.policyKeys must be unique"
        ELSE IF ~(Range(policy_keys) \subseteq Range(taxonomy.keys))
        THEN "policyKeys must be subset of taxonomy.keys"
        ELSE FirstMsg([i \in DOMAIN legal |->
                 LET m == _validate_tuple_tokens(legal[i], taxonomy)
                 IN  IF m # "" THEN m
                     ELSE IF ~(Range(policy_keys) \subseteq DictKeys(legal[i]))
                     THEN "policy.legalTuples entries must include all policyKeys"
                     ELSE ""])

Ids(list) == [i \in DOMAIN list |-> list[i].id]

validate_component_graph(component_graph) ==
    LET root == component_graph.rootABIE
        abies == component_graph.abies
        asbies == component_graph.asbies
        bbies == component_graph.bbies
        all_ids == Ids(abies) \o Ids(asbies) \o Ids(bbies)
        abie_set == Range(Ids(abies))
        asbie_set == Range(Ids(asbies))
        bbie_set == Range(Ids(bbies))
    IN  IF root = "" THEN "componentGraph.rootABIE must be non-empty string"
        ELSE IF \E i \in DOMAIN all_ids : all_ids[i] = "" THEN "componentGraph id is required"
        ELSE IF ~IsUniqueSeq(all_ids) THEN "component graph IDs are globally unique"
        ELSE IF root \notin abie_set THEN "componentGraph.rootABIE must reference an ABIE id"
        ELSE IF \E i \in DOMAIN asbies :
                  asbies[i].sourceABIE \notin abie_set \/ asbies[i].targetABIE \notin abie_set
        THEN "componentGraph.asbies source/targetABIE must resolve to ABIE id"
        ELSE IF \E i \in DOMAIN bbies : bbies[i].ownerABIE \notin abie_set
        THEN "componentGraph.bbies.ownerABIE must resolve to ABIE id"
        ELSE IF \E i \in DOMAIN abies :
                  \/ ~(Range(abies[i].childrenASBIE) \subseteq asbie_set)
                  \/ ~(Range(abies[i].childrenBBIE) \subseteq bbie_set)
        THEN "componentGraph.abies children must resolve to ASBIE/BBIE ids"
        ELSE ""

validate_assignments(assignments, taxonomy, component_graph) ==
    LET t == validate_taxonomy(taxonomy)
        g == validate_component_graph(component_graph)
        allowed_components == Range(Ids(component_graph.asbies)) \cup Range(Ids(component_graph.bbies))
    IN  IF t # "" THEN t
        ELSE IF g # "" THEN g
        ELSE FirstMsg([i \in DOMAIN assignments |->
                 IF assignments[i].componentId = "" THEN "assignedBusinessContext.componentId is required"
                 ELSE IF assignments[i].componentId \notin allowed_components
                 THEN "assignedBusinessContext.componentId must resolve to BBIE/ASBIE id"
                 ELSE FirstMsg([j \in DOMAIN assignments[i].tuples |->
                          _validate_tuple_tokens(assignments[i].tuples[j], taxonomy)])])

validate_iucs(iucs, taxonomy) ==
    LET t == validate_taxonomy(taxonomy)
        perIuc == FirstMsg([i \in DOMAIN iucs |->
                     IF iucs[i].id = "" THEN "iucs.id is required"
                     ELSE FirstMsg([j \in DOMAIN iucs[i].tuples |->
                              _validate_tuple_tokens(iucs[i].tuples[j], taxonomy)])])
    IN  IF t # "" THEN t
        ELSE IF perIuc # "" THEN perIuc
        ELSE IF ~IsUniqueSeq(Ids(iucs)) THEN "iucs ids must be unique"
        ELSE ""

RequiredSections == <<"taxonomy", "policy", "componentGraph", "assignedBusinessContext">>

(* Python None. *)
None == [none |-> TRUE]

SectionEnvelope(section, msg) ==
    build_error_envelope("Validation", <<section, ": ", msg>>, <<"section", section>>).val

(* One try/except block of validate_ec_inputs: msg is the validator's *)
(* outcome, rest is what follows when it accepts.                     *)
SectionCheck(section, msg, rest) ==
    IF msg # "" THEN SectionEnvelope(section, msg) ELSE rest

validate_ec_inputs(ec_bundle, iucs) ==
    LET missing == {i \in DOMAIN RequiredSections : RequiredSections[i] \notin DOMAIN ec_bundle} IN
    IF missing # {}
    THEN build_error_envelope("Validation",
             <<"bundle", ": ", "missing required section: ", RequiredSections[MinOf(missing)]>>,
             <<"section", "bundle">>).val
    ELSE SectionCheck("taxonomy", validate_taxonomy(ec_bundle.taxonomy),
         SectionCheck("policy", validate_policy(ec_bundle.policy, ec_bundle.taxonomy),
         SectionCheck("componentGraph", validate_component_graph(ec_bundle.componentGraph),
         SectionCheck("assignedBusinessContext",
                      validate_assignments(ec_bundle.assignedBusinessContext, ec_bundle.taxonomy,
                                           ec_bundle.componentGraph),
         SectionCheck("iucs", validate_iucs(iucs, ec_bundle.taxonomy), None)))))

----------------------------------------------------------------------------
(* Step 1: policy prefilter (step1.py).                                    *)

(* Returns (normalized, fills, error); error is <<>> for None.  The type   *)
(* check on the token cannot fail on the well-typed tuples of this model.  *)
RECURSIVE NormalizeFrom(_, _, _, _, _)
NormalizeFrom(tuple_before, taxonomy, i, normalized, fills) ==
    IF i > Len(taxonomy.keys) THEN [normalized |-> normalized, fills |-> fills, error |-> <<>>]
    ELSE LET key == taxonomy.keys[i] IN
         IF HasKey(tuple_before, key)
         THEN NormalizeFrom(tuple_before, taxonomy, i + 1,
                            Append(normalized, <<key, Get(tuple_before, key)>>), fills)
         ELSE IF key \in DOMAIN taxonomy.defaults
         THEN NormalizeFrom(tuple_before, taxonomy, i + 1,
                            Append(normalized, <<key, taxonomy.defaults[key]>>),
                            Append(fills, <<key, taxonomy.defaults[key]>>))
         ELSE [normalized |-> <<>>, fills |-> <<>>, error |-> <<"missing-key-no-default:", key>>]

(* The normalization that does not record what it filled. *)
NormalizeWithoutFills(tuple_before, taxonomy) ==
    [NormalizeFrom(tuple_before, taxonomy, 1, <<>>, <<>>) EXCEPT !.fills = <<>>]

_normalize_tuple(tuple_before, taxonomy) == NormalizeFrom(tuple_before, taxonomy, 1, <<>>, <<>>)

(* Step 1's own tuple meet: a key the legal tuple lacks takes the left token. *)
RECURSIVE IntersectTuple1From(_, _, _, _, _)
IntersectTuple1From(normalized_tuple, legal_tuple, taxonomy, i, out) ==
    IF i > Len(taxonomy.keys) THEN [defined |-> TRUE, val |-> out]
    ELSE LET key == taxonomy.keys[i]
             left == Get(normalized_tuple, key)
             right == IF HasKey(legal_tuple, key) THEN Get(legal_tuple, key) ELSE left
             intersected == _intersect_token(left, right, taxonomy.placeholders[key],
                                             taxonomy.caseSensitive)
         IN  IF intersected = NoToken THEN [defined |-> FALSE, val |-> <<>>]
             ELSE IntersectTuple1From(normalized_tuple, legal_tuple, taxonomy, i + 1,
                                      Append(out, <<key, intersected>>))

(* Step 1's tuple meet written out in the reverse of the taxonomy's key order. *)
IntersectTuple1Reversed(normalized_tuple, legal_tuple, taxonomy) ==
    IntersectTuple1From(normalized_tuple, legal_tuple,
                        [taxonomy EXCEPT !.keys = Reverse(taxonomy.keys)], 1, <<>>)

_intersect_tuple_step1(normalized_tuple, legal_tuple, taxonomy) ==
    IntersectTuple1From(normalized_tuple, legal_tuple, taxonomy, 1, <<>>)

(* Whether the normalized tuple meets the legal tuple on every policy key. *)
PolicyMatch(normalized, legal_tuple, policy, taxonomy) ==
    \A k \in DOMAIN policy.policyKeys :
        _intersect_token(Get(normalized, policy.policyKeys[k]),
                         Get(legal_tuple, policy.policyKeys[k]),
                         taxonomy.placeholders[policy.policyKeys[k]],
                         taxonomy.caseSensitive) # NoToken

(* What the witness loop keeps, given per legal tuple whether it matched *)
(* and its meet with the normalized tuple.                                *)
WitnessKept(tries) ==
    LET kept == SelectSeq([w \in DOMAIN tries |-> w],
                          LAMBDA w : tries[w].matched /\ tries[w].meet.defined)
    IN  [witnesses |-> [p \in DOMAIN kept |-> kept[p] - 1],
         narrowed |-> [p \in DOMAIN kept |-> tries[kept[p]].meet.val]]

(* The witness loop of run_step1_prefilter for one normalized tuple:       *)
(* the 0-based indices of the legal tuples kept, and their narrowed tuples *)
(* before dedup.                                                           *)
WitnessLoop(normalized, policy, taxonomy) ==
    WitnessKept([w \in DOMAIN policy.legalTuples |->
                    [matched |-> PolicyMatch(normalized, policy.legalTuples[w], policy, taxonomy),
                     meet |-> _intersect_tuple_step1(normalized, policy.legalTuples[w], taxonomy)]])

(* The log entry and the tuples added to the component's bucket, given the *)
(* normalization n of the tuple and the outcome w of its witness loop.     *)
Step1Record(component_id, tuple_index, tuple_before, n, w) ==
    IF n.error # <<>>
    THEN [added |-> <<>>,
          log |-> [componentId |-> component_id, tupleIndex |-> tuple_index,
                   action |-> "dropped", fills |-> n.fills, witnesses |-> <<>>,
                   tupleBefore |-> tuple_before, tuplesAfter |-> <<>>,
                   reason |-> n.error]]
    ELSE IF w.narrowed = <<>>
    THEN [added |-> <<>>,
          log |-> [componentId |-> component_id, tupleIndex |-> tuple_index,
                   action |-> "dropped", fills |-> n.fills, witnesses |-> <<>>,
                   tupleBefore |-> tuple_before, tuplesAfter |-> <<>>,
                   reason |-> <<"no-legal-match">>]]
    ELSE [added |-> _dedup_exact_ordered(w.narrowed),
          log |-> [componentId |-> component_id, tupleIndex |-> tuple_index,
                   action |-> "kept-multi", fills |-> n.fills, witnesses |-> w.witnesses,
                   tupleBefore |-> tuple_before,
                   tuplesAfter |-> _dedup_exact_ordered(w.narrowed)]]

Step1Normalized(component_id, tuple_index, tuple_before, n, policy, taxonomy) ==
    Step1Record(component_id, tuple_index, tuple_before, n,
                WitnessLoop(n.normalized, policy, taxonomy))

(* One iteration of the inner loop. *)
Step1Tuple(component_id, tuple_index, tuple_before, policy, taxonomy) ==
    Step1Normalized(component_id, tuple_index, tuple_before,
                    _normalize_tuple(tuple_before, taxonomy), policy, taxonomy)

(* Everything the outer loop appends for one assignment entry. *)
Step1Entry(entry, policy, taxonomy) ==
    [t \in DOMAIN entry.tuples |->
        Step1Tuple(entry.componentId, t - 1, entry.tuples[t], policy, taxonomy)]

(* The ids in order of last appearance. *)
ComponentOrderByLast(assignments) ==
    Reverse(_dedup_exact_ordered(Reverse([i \in DOMAIN assignments |-> assignments[i].componentId])))

(* component_order: the ids in order of first appearance. *)
ComponentOrder(assignments) ==
    _dedup_exact_ordered([i \in DOMAIN assignments |-> assignments[i].componentId])

(* prefiltered_by_component[cid] after the loops: what every entry of that *)
(* id added, in input order; per[i] is what entry i produced.              *)
PrefilteredBucket(assignments, per, cid) ==
    Concat([i \in DOMAIN assignments |->
        IF assignments[i].componentId # cid THEN <<>>
        ELSE Concat([t \in DOMAIN per[i] |-> per[i][t].added])])

(* The output assembled after the loops. *)
Step1Output(assignments, per) ==
    LET order == ComponentOrder(assignments)
        all == [c \in DOMAIN order |->
                  [componentId |-> order[c],
                   tuples |-> _dedup_exact_ordered(PrefilteredBucket(assignments, per, order[c]))]]
    IN  Ok([prefiltered |-> SelectSeq(all, LAMBDA e : e.tuples # <<>>),
            log |-> Concat([i \in DOMAIN assignments |->
                               [t \in DOMAIN per[i] |-> per[i][t].log]])])

(* A validator call at the head of a step: msg is its outcome, rest is *)
(* what follows when it accepts.                                       *)
RaiseIfInvalid(msg, rest) ==
    IF msg # "" THEN Raise("ValidationError", msg) ELSE rest

run_step1_prefilter(assignments, policy, taxonomy) ==
    RaiseIfInvalid(validate_taxonomy(taxonomy),
    RaiseIfInvalid(validate_policy(policy, taxonomy),
    Step1Output(assignments,
                [i \in DOMAIN assignments |-> Step1Entry(assignments[i], policy, taxonomy)])))

(* The try/except of run_step1_prefilter_safe around the call result r. *)
Step1Envelope(r) ==
    IF r.exc = "none" THEN r.val
    ELSE IF r.exc = "ValidationError"
    THEN build_error_envelope("Step1", <<r.arg>>, <<"stage", "validation">>).val
    ELSE IF r.exc = "KeyError"
    THEN build_error_envelope("Step1", <<"missing required field: ", r.arg>>, <<"stage", "runtime">>).val
    ELSE build_error_envelope("Step1", <<r.exc, ": ", r.arg>>, <<"stage", "runtime">>).val

run_step1_prefilter_safe(assignments, policy, taxonomy) ==
    Step1Envelope(run_step1_prefilter(assignments, policy, taxonomy))

----------------------------------------------------------------------------
(* Id-keyed dicts and sorted().                                            *)

(* The id strings of this model in Python's string order. *)
IdOrder == <<"A1", "A2", "A3", "B1", "B2", "B3", "P1", "P2", "P3", "S1", "S2", "S3">>

(* The ids in listing order. *)
Listed(s) == s

(* sorted(list of ids): stable, duplicates kept. *)
Sorted(s) == Concat([i \in DOMAIN IdOrder |-> SelectSeq(s, LAMBDA x : x = IdOrder[i])])

(* The ids of a set in descending order. *)
SortedSetDescending(S) == Reverse(SelectSeq(IdOrder, LAMBDA x : x \in S))

(* sorted(set of ids) *)
SortedSet(S) == SelectSeq(IdOrder, LAMBDA x : x \in S)

EmptyDict == <<>>

Put(f, k, v) == [x \in (DOMAIN f) \cup {k} |-> IF x = k THEN v ELSE f[x]]

(* dict.get(k, []) *)
GetOr(f, k) == IF k \in DOMAIN f THEN f[k] ELSE <<>>

(* {x["id"]: x for x in list}[id]: the last entry of that id wins. *)
ById(list, id) ==
    list[CHOOSE i \in DOMAIN list :
            list[i].id = id /\ \A j \in DOMAIN list : list[j].id = id => j <= i]

----------------------------------------------------------------------------
(* Kahn's algorithm (step2.py and step3.py carry identical copies).        *)

(* edges[source]: the targets of the ASBIEs that source lists as children. *)
Edges(component_graph) ==
    [a \in Range(Ids(component_graph.abies)) |->
        {ById(component_graph.asbies, c).targetABIE :
            c \in Range(ById(component_graph.abies, a).childrenASBIE)}]

RECURSIVE Kahn(_, _, _, _)
Kahn(queue, out, indeg, edges) ==
    IF queue = <<>> THEN out
    ELSE LET node == Head(queue)
             indeg2 == [n \in DOMAIN indeg |->
                           IF n \in edges[node] THEN indeg[n] - 1 ELSE indeg[n]]
             ready == SortedSet({n \in edges[node] : indeg2[n] = 0})
         IN  Kahn(Tail(queue) \o ready, Append(out, node), indeg2, edges)

_topological_order_or_cycle(component_graph) ==
    LET abie_ids == Ids(component_graph.abies)
        edges == Edges(component_graph)
        indeg == [n \in Range(abie_ids) |-> Cardinality({a \in Range(abie_ids) : n \in edges[a]})]
        out == Kahn(SortedSet({n \in Range(abie_ids) : indeg[n] = 0}), <<>>, indeg, edges)
    IN  IF Len(out) # Len(abie_ids)
        THEN Raise("CycleDetectedError", "ABIE dependency graph has a cycle")
        ELSE Ok(out)

----------------------------------------------------------------------------
(* Step 2: Overall Context (step2.py).                                     *)

(* prefiltered_map: per component id, the dedup of all its listed tuples. *)
PrefilteredMap(prefiltered) ==
    [cid \in {prefiltered[i].componentId : i \in DOMAIN prefiltered} |->
        _dedup_exact_ordered(Concat([i \in DOMAIN prefiltered |->
            IF prefiltered[i].componentId = cid THEN prefiltered[i].tuples ELSE <<>>]))]

(* The first raising call of a sequence of call results, if any. *)
FirstRaise(rs) ==
    LET bad == {i \in DOMAIN rs : rs[i].exc # "none"}
    IN  IF bad = {} THEN Ok(<<>>) ELSE rs[MinOf(bad)]

(* The _t_intersect calls of one ABIE's sorted child ASBIEs. *)
Step2Calls(kids, oc_abie, prefiltered_map, ctx) ==
    [k \in DOMAIN kids |->
        LET target_abie == ById(ctx.graph.asbies, kids[k]).targetABIE IN
        IF target_abie \notin DOMAIN oc_abie THEN Raise("KeyError", target_abie)
        ELSE _t_intersect(GetOr(prefiltered_map, kids[k]), oc_abie[target_abie], ctx.taxonomy)]

(* oc_asbie after the child ASBIEs kids stored the values of calls. *)
StoreCalls(dict, kids, calls) ==
    [x \in (DOMAIN dict) \cup Range(kids) |->
        IF x \in Range(kids) THEN calls[CHOOSE k \in DOMAIN kids : kids[k] = x].val
        ELSE dict[x]]

(* The union over the children of one ABIE, ASBIEs first. *)
ChildSets(kids, bkids, oc_asbie, oc_bbie) ==
    Concat([k \in DOMAIN kids |-> GetOr(oc_asbie, kids[k])])
    \o Concat([k \in DOMAIN bkids |-> GetOr(oc_bbie, bkids[k])])

RECURSIVE Step2Loop(_, _, _, _, _, _, _)
RECURSIVE Step2Abie(_, _, _, _, _, _, _, _, _)

(* One iteration of the bottom-up loop, given the ABIE's sorted children *)
(* and the results calls of its child ASBIEs.                            *)
Step2Abie(reverse_topo, i, oc_asbie, oc_abie, oc_bbie, prefiltered_map, ctx, kids, calls) ==
    IF FirstRaise(calls).exc # "none" THEN FirstRaise(calls)
    ELSE Step2Loop(reverse_topo, i + 1, StoreCalls(oc_asbie, kids, calls),
                   Put(oc_abie, reverse_topo[i],
                       _dedup_exact_ordered(
                           ChildSets(kids,
                                     Sorted(ById(ctx.graph.abies, reverse_topo[i]).childrenBBIE),
                                     StoreCalls(oc_asbie, kids, calls), oc_bbie))),
                   oc_bbie, prefiltered_map, ctx)

Step2Loop(reverse_topo, i, oc_asbie, oc_abie, oc_bbie, prefiltered_map, ctx) ==
    IF i > Len(reverse_topo) THEN Ok([oc_asbie |-> oc_asbie, oc_abie |-> oc_abie])
    ELSE Step2Abie(reverse_topo, i, oc_asbie, oc_abie, oc_bbie, prefiltered_map, ctx,
                   Sorted(ById(ctx.graph.abies, reverse_topo[i]).childrenASBIE),
                   Step2Calls(Sorted(ById(ctx.graph.abies, reverse_topo[i]).childrenASBIE),
                              oc_abie, prefiltered_map, ctx))

(* The returned OC, given the loop's result. *)
Step2Output(loop, component_graph, oc_bbie) ==
    IF loop.exc # "none" THEN loop
    ELSE Ok([oc |-> [ABIE |-> loop.val.oc_abie,
                     ASBIE |-> [k \in Range(Ids(component_graph.asbies)) |->
                                  GetOr(loop.val.oc_asbie, k)],
                     BBIE |-> oc_bbie]])

(* run_step2_oc after validation and the topological sort topo. *)
Step2FromTopo(topo, prefiltered_map, component_graph, taxonomy, oc_bbie) ==
    IF topo.exc # "none" THEN topo
    ELSE Step2Output(Step2Loop(Reverse(topo.val), 1, EmptyDict, EmptyDict, oc_bbie,
                               prefiltered_map,
                               [graph |-> component_graph, taxonomy |-> taxonomy]),
                     component_graph, oc_bbie)

Step2FromMap(prefiltered_map, component_graph, taxonomy) ==
    Step2FromTopo(_topological_order_or_cycle(component_graph), prefiltered_map,
                  component_graph, taxonomy,
                  [b \in Range(Ids(component_graph.bbies)) |-> GetOr(prefiltered_map, b)])

run_step2_oc(prefiltered, component_graph, taxonomy) ==
    RaiseIfInvalid(validate_taxonomy(taxonomy),
    RaiseIfInvalid(validate_component_graph(component_graph),
    Step2FromMap(PrefilteredMap(prefiltered), component_graph, taxonomy)))

(* The try/except of run_step2_oc_safe and run_step3_ec_safe around the *)
(* call result r.                                                      *)
SafeEnvelope(step, cycle_reason, r) ==
    IF r.exc = "none" THEN r.val
    ELSE IF r.exc = "CycleDetectedError"
    THEN build_error_envelope(step, <<cycle_reason>>, <<"stage", "cycle">>).val
    ELSE IF r.exc = "ValidationError"
    THEN build_error_envelope(step, <<r.arg>>, <<"stage", "validation">>).val
    ELSE IF r.exc = "KeyError"
    THEN build_error_envelope(step, <<"missing required field: ", r.arg>>, <<"stage", "runtime">>).val
    ELSE build_error_envelope(step, <<r.exc, ": ", r.arg>>, <<"stage", "runtime">>).val

run_step2_oc_safe(prefiltered, component_graph, taxonomy) ==
    SafeEnvelope("Step2", "OC_non_convergent_cycle",
                 run_step2_oc(prefiltered, component_graph, taxonomy))

----------------------------------------------------------------------------
(* Step 3: Effective Context (step3.py).                                   *)

(* incoming[abie]: the sorted ids of all ASBIEs whose targetABIE is abie. *)
Incoming(component_graph, abie_id) ==
    SortedSet({component_graph.asbies[i].id : i \in
                  {j \in DOMAIN component_graph.asbies :
                      component_graph.asbies[j].targetABIE = abie_id}})

(* The gate chosen with the incoming ASBIEs tried before the root. *)
GateIncomingBeforeRoot(abie_id, root, seed, incoming, ec_asbie, oc_abie) ==
    IF incoming # <<>>
    THEN _dedup_exact_ordered(Concat([k \in DOMAIN incoming |-> GetOr(ec_asbie, incoming[k])]))
    ELSE IF abie_id = root THEN seed
    ELSE GetOr(oc_abie, abie_id)

(* The gate of the root taken from its own OC instead of the seed. *)
GateIgnoringSeed(abie_id, root, seed, incoming, ec_asbie, oc_abie) ==
    IF abie_id # root /\ incoming # <<>>
    THEN _dedup_exact_ordered(Concat([k \in DOMAIN incoming |-> GetOr(ec_asbie, incoming[k])]))
    ELSE GetOr(oc_abie, abie_id)

Gate(abie_id, root, seed, incoming, ec_asbie, oc_abie) ==
    IF abie_id = root THEN seed
    ELSE IF incoming # <<>>
    THEN _dedup_exact_ordered(Concat([k \in DOMAIN incoming |-> GetOr(ec_asbie, incoming[k])]))
    ELSE GetOr(oc_abie, abie_id)

(* ec[kind] after the children kids stored the values of calls. *)
StoreChildren(dict, kids, calls) ==
    [x \in DOMAIN dict |->
        IF x \in Range(kids) THEN calls[CHOOSE k \in DOMAIN kids : kids[k] = x].val
        ELSE dict[x]]

(* The children taking their OC lists whatever the EC of the ABIE. *)
ChildCallsUnnarrowed(kids, oc_kind, ec_abie, taxonomy) ==
    [k \in DOMAIN kids |-> Ok(GetOr(oc_kind, kids[k]))]

(* The narrowing of the sorted children kids of one ABIE to its EC. *)
ChildCalls(kids, oc_kind, ec_abie, taxonomy) ==
    [k \in DOMAIN kids |-> _t_intersect(GetOr(oc_kind, kids[k]), ec_abie, taxonomy)]

RECURSIVE Step3Loop(_, _, _, _, _, _)
RECURSIVE Step3Abie(_, _, _, _, _, _, _)
RECURSIVE Step3Children(_, _, _, _, _, _, _, _, _, _, _)

(* The end of one iteration, given the results of the ABIE and of its *)
(* sorted BBIE and ASBIE children.                                     *)
Step3Children(topo, i, ec, seed, oc, ctx, r_abie, bkids, r_bbie, kids, r_asbie) ==
    IF FirstRaise(r_bbie).exc # "none" THEN FirstRaise(r_bbie)
    ELSE IF FirstRaise(r_asbie).exc # "none" THEN FirstRaise(r_asbie)
    ELSE Step3Loop(topo, i + 1,
                   [ABIE |-> Put(ec.ABIE, topo[i], r_abie.val),
                    ASBIE |-> StoreChildren(ec.ASBIE, kids, r_asbie),
                    BBIE |-> StoreChildren(ec.BBIE, bkids, r_bbie)],
                   seed, oc, ctx)

(* One iteration, given the result r_abie of the ABIE's own narrowing. *)
Step3Abie(topo, i, ec, seed, oc, ctx, r_abie) ==
    IF r_abie.exc # "none" THEN r_abie
    ELSE Step3Children(topo, i, ec, seed, oc, ctx, r_abie,
                       Sorted(ById(ctx.graph.abies, topo[i]).childrenBBIE),
                       ChildCalls(Sorted(ById(ctx.graph.abies, topo[i]).childrenBBIE),
                                  oc.BBIE, r_abie.val, ctx.taxonomy),
                       Sorted(ById(ctx.graph.abies, topo[i]).childrenASBIE),
                       ChildCalls(Sorted(ById(ctx.graph.abies, topo[i]).childrenASBIE),
                                  oc.ASBIE, r_abie.val, ctx.taxonomy))

(* One pass of the top-down loop over topo; ec holds the three dicts. *)
Step3Loop(topo, i, ec, seed, oc, ctx) ==
    IF i > Len(topo) THEN Ok(ec)
    ELSE Step3Abie(topo, i, ec, seed, oc, ctx,
                   _t_intersect(GetOr(oc.ABIE, topo[i]),
                                Gate(topo[i], ctx.graph.rootABIE, seed,
                                     Incoming(ctx.graph, topo[i]), ec.ASBIE, oc.ABIE),
                                ctx.taxonomy))

(* The three EC dicts before the loop: every id with an empty list. *)
EmptyEc(component_graph) ==
    [ABIE |-> [k \in Range(Ids(component_graph.abies)) |-> <<>>],
     ASBIE |-> [k \in Range(Ids(component_graph.asbies)) |-> <<>>],
     BBIE |-> [k \in Range(Ids(component_graph.bbies)) |-> <<>>]]

(* run_step3_ec from the seed to the end of the loop, given the result *)
(* seed0 of the root's meet with the profile tuples.                    *)
Step3FromSeed(seed0, topo, oc, component_graph, taxonomy) ==
    IF seed0.exc # "none" THEN seed0
    ELSE Step3Loop(topo.val, 1, EmptyEc(component_graph),
                   _collapse_ancestor_preferred(seed0.val, taxonomy), oc,
                   [graph |-> component_graph, taxonomy |-> taxonomy])

(* run_step3_ec after validation, given the topological sort topo. *)
Step3FromTopo(topo, oc, component_graph, taxonomy, iuc) ==
    IF topo.exc # "none" THEN topo
    ELSE Step3FromSeed(_t_intersect(GetOr(oc.ABIE, component_graph.rootABIE),
                                    _dedup_exact_ordered(iuc.tuples), taxonomy),
                       topo, oc, component_graph, taxonomy)

(* run_step3_ec up to the end of the top-down loop: the three EC dicts *)
(* before the final collapse, or the exception raised on the way.      *)
Step3Propagate(oc, component_graph, taxonomy, iuc) ==
    RaiseIfInvalid(validate_taxonomy(taxonomy),
    RaiseIfInvalid(validate_component_graph(component_graph),
    RaiseIfInvalid(validate_iucs(<<iuc>>, taxonomy),
    Step3FromTopo(_topological_order_or_cycle(component_graph), oc, component_graph,
                  taxonomy, iuc))))

(* The final collapse of every list, applied to the loop's result. *)
CollapseAll(loop, taxonomy) ==
    IF loop.exc # "none" THEN loop
    ELSE Ok([ec |-> [kind \in {"ABIE", "ASBIE", "BBIE"} |->
                        [k \in DOMAIN loop.val[kind] |->
                            _collapse_ancestor_preferred(loop.val[kind][k], taxonomy)]]])

run_step3_ec(oc, component_graph, taxonomy, iuc) ==
    CollapseAll(Step3Propagate(oc, component_graph, taxonomy, iuc), taxonomy)

run_step3_ec_safe(oc, component_graph, taxonomy, iuc) ==
    SafeEnvelope("Step3", "EC_non_convergent_cycle",
                 run_step3_ec(oc, component_graph, taxonomy, iuc))

----------------------------------------------------------------------------
(* Step 4: profile schema (step4.py).  Every EC value of this model is a   *)
(* list, so isinstance(tuples, list) holds.                                *)

(* Every id of a bucket, whatever its list. *)
AllIds(bucket) == DOMAIN bucket

NonEmptyIds(bucket) == {k \in DOMAIN bucket : Len(bucket[k]) > 0}

(* run_step4_profile_schema with isRealizable decided by the presence of *)
(* the root's key in EC.ABIE instead of a non-empty list.                 *)
Step4RealizableByKey(ec, component_graph, iuc) ==
    IF validate_component_graph(component_graph) # ""
    THEN Raise("ValidationError", validate_component_graph(component_graph))
    ELSE LET root_abie == component_graph.rootABIE
             abie_set == Range(Ids(component_graph.abies))
             asbie_set == Range(Ids(component_graph.asbies))
             bbie_set == Range(Ids(component_graph.bbies))
             ec_abie == IF "ABIE" \in DOMAIN ec THEN ec.ABIE ELSE EmptyDict
             ec_asbie == IF "ASBIE" \in DOMAIN ec THEN ec.ASBIE ELSE EmptyDict
             ec_bbie == IF "BBIE" \in DOMAIN ec THEN ec.BBIE ELSE EmptyDict
             included_asbie_ids == NonEmptyIds(ec_asbie)
             included_bbie_ids == NonEmptyIds(ec_bbie)
             unknown == SelectSeq(SortedSet(included_asbie_ids), LAMBDA x : x \notin asbie_set)
             closure == {ById(component_graph.asbies, x).targetABIE : x \in included_asbie_ids \cap asbie_set}
             with_targets == NonEmptyIds(ec_abie)
                             \cup {t \in closure : t \in DOMAIN ec_abie /\ Len(ec_abie[t]) > 0}
             root_ec == GetOr(ec_abie, root_abie)
             is_realizable == root_abie \in DOMAIN ec_abie
             included_abie_ids == IF ~is_realizable THEN with_targets \ {root_abie}
                                  ELSE with_targets
             abie_out == SelectSeq(SortedSet(included_abie_ids), LAMBDA x : x \in abie_set)
             asbie_out == SelectSeq(SortedSet(included_asbie_ids), LAMBDA x : x \in asbie_set)
             bbie_out == SelectSeq(SortedSet(included_bbie_ids), LAMBDA x : x \in bbie_set)
         IN  IF unknown # <<>> THEN Raise("KeyError", unknown[1])
             ELSE Ok([version |-> "ProfileSchema-1.0",
                      profileId |-> iuc.id,
                      rootABIE |-> root_abie,
                      includes |->
                        [ABIE |-> [p \in DOMAIN abie_out |->
                                     [id |-> abie_out[p], ecTuples |-> ec_abie[abie_out[p]]]],
                         ASBIE |-> [p \in DOMAIN asbie_out |->
                                     [id |-> asbie_out[p], ecTuples |-> ec_asbie[asbie_out[p]],
                                      sourceABIE |-> ById(component_graph.asbies, asbie_out[p]).sourceABIE,
                                      targetABIE |-> ById(component_graph.asbies, asbie_out[p]).targetABIE]],
                         BBIE |-> [p \in DOMAIN bbie_out |->
                                     [id |-> bbie_out[p],
                                      ownerABIE |-> ById(component_graph.bbies, bbie_out[p]).ownerABIE,
                                      ecTuples |-> ec_bbie[bbie_out[p]]]]],
                      notes |-> <<"seed: ancestor-preferred collapse",
                                  "emission: collapse per component",
                                  "exact-dedup inside steps">>,
                      trace |-> <<"sourceEC", "Step3">>,
                      isRealizable |-> is_realizable])


(* run_step4_profile_schema with the closure adding every target that has *)
(* a key in EC.ABIE, without the non-empty check.                          *)
Step4ClosureUnchecked(ec, component_graph, iuc) ==
    IF validate_component_graph(component_graph) # ""
    THEN Raise("ValidationError", validate_component_graph(component_graph))
    ELSE LET root_abie == component_graph.rootABIE
             abie_set == Range(Ids(component_graph.abies))
             asbie_set == Range(Ids(component_graph.asbies))
             bbie_set == Range(Ids(component_graph.bbies))
             ec_abie == IF "ABIE" \in DOMAIN ec THEN ec.ABIE ELSE EmptyDict
             ec_asbie == IF "ASBIE" \in DOMAIN ec THEN ec.ASBIE ELSE EmptyDict
             ec_bbie == IF "BBIE" \in DOMAIN ec THEN ec.BBIE ELSE EmptyDict
             included_asbie_ids == NonEmptyIds(ec_asbie)
             included_bbie_ids == NonEmptyIds(ec_bbie)
             unknown == SelectSeq(SortedSet(included_asbie_ids), LAMBDA x : x \notin asbie_set)
             closure == {ById(component_graph.asbies, x).targetABIE : x \in included_asbie_ids \cap asbie_set}
             with_targets == NonEmptyIds(ec_abie)
                             \cup {t \in closure : t \in DOMAIN ec_abie}
             root_ec == GetOr(ec_abie, root_abie)
             is_realizable == Len(root_ec) > 0
             included_abie_ids == IF ~is_realizable THEN with_targets \ {root_abie}
                                  ELSE with_targets
             abie_out == SelectSeq(SortedSet(included_abie_ids), LAMBDA x : x \in abie_set)
             asbie_out == SelectSeq(SortedSet(included_asbie_ids), LAMBDA x : x \in asbie_set)
             bbie_out == SelectSeq(SortedSet(included_bbie_ids), LAMBDA x : x \in bbie_set)
         IN  IF unknown # <<>> THEN Raise("KeyError", unknown[1])
             ELSE Ok([version |-> "ProfileSchema-1.0",
                      profileId |-> iuc.id,
                      rootABIE |-> root_abie,
                      includes |->
                        [ABIE |-> [p \in DOMAIN abie_out |->
                                     [id |-> abie_out[p], ecTuples |-> ec_abie[abie_out[p]]]],
                         ASBIE |-> [p \in DOMAIN asbie_out |->
                                     [id |-> asbie_out[p], ecTuples |-> ec_asbie[asbie_out[p]],
                                      sourceABIE |-> ById(component_graph.asbies, asbie_out[p]).sourceABIE,
                                      targetABIE |-> ById(component_graph.asbies, asbie_out[p]).targetABIE]],
                         BBIE |-> [p \in DOMAIN bbie_out |->
                                     [id |-> bbie_out[p],
                                      ownerABIE |-> ById(component_graph.bbies, bbie_out[p]).ownerABIE,
                                      ecTuples |-> ec_bbie[bbie_out[p]]]]],
                      notes |-> <<"seed: ancestor-preferred collapse",
                                  "emission: collapse per component",
                                  "exact-dedup inside steps">>,
                      trace |-> <<"sourceEC", "Step3">>,
                      isRealizable |-> is_realizable])


run_step4_profile_schema(ec, component_graph, iuc) ==
    IF validate_component_graph(component_graph) # ""
    THEN Raise("ValidationError", validate_component_graph(component_graph))
    ELSE LET root_abie == component_graph.rootABIE
             abie_set == Range(Ids(component_graph.abies))
             asbie_set == Range(Ids(component_graph.asbies))
             bbie_set == Range(Ids(component_graph.bbies))
             ec_abie == IF "ABIE" \in DOMAIN ec THEN ec.ABIE ELSE EmptyDict
             ec_asbie == IF "ASBIE" \in DOMAIN ec THEN ec.ASBIE ELSE EmptyDict
             ec_bbie == IF "BBIE" \in DOMAIN ec THEN ec.BBIE ELSE EmptyDict
             included_asbie_ids == NonEmptyIds(ec_asbie)
             included_bbie_ids == NonEmptyIds(ec_bbie)
             unknown == SelectSeq(SortedSet(included_asbie_ids), LAMBDA x : x \notin asbie_set)
             closure == {ById(component_graph.asbies, x).targetABIE : x \in included_asbie_ids \cap asbie_set}
             with_targets == NonEmptyIds(ec_abie)
                             \cup {t \in closure : t \in DOMAIN ec_abie /\ Len(ec_abie[t]) > 0}
             root_ec == GetOr(ec_abie, root_abie)
             is_realizable == Len(root_ec) > 0
             included_abie_ids == IF ~is_realizable THEN with_targets \ {root_abie}
                                  ELSE with_targets
             abie_out == SelectSeq(SortedSet(included_abie_ids), LAMBDA x : x \in abie_set)
             asbie_out == SelectSeq(SortedSet(included_asbie_ids), LAMBDA x : x \in asbie_set)
             bbie_out == SelectSeq(SortedSet(included_bbie_ids), LAMBDA x : x \in bbie_set)
         IN  IF unknown # <<>> THEN Raise("KeyError", unknown[1])
             ELSE Ok([version |-> "ProfileSchema-1.0",
                      profileId |-> iuc.id,
                      rootABIE |-> root_abie,
                      includes |->
                        [ABIE |-> [p \in DOMAIN abie_out |->
                                     [id |-> abie_out[p], ecTuples |-> ec_abie[abie_out[p]]]],
                         ASBIE |-> [p \in DOMAIN asbie_out |->
                                     [id |-> asbie_out[p], ecTuples |-> ec_asbie[asbie_out[p]],
                                      sourceABIE |-> ById(component_graph.asbies, asbie_out[p]).sourceABIE,
                                      targetABIE |-> ById(component_graph.asbies, asbie_out[p]).targetABIE]],
                         BBIE |-> [p \in DOMAIN bbie_out |->
                                     [id |-> bbie_out[p],
                                      ownerABIE |-> ById(component_graph.bbies, bbie_out[p]).ownerABIE,
                                      ecTuples |-> ec_bbie[bbie_out[p]]]]],
                      notes |-> <<"seed: ancestor-preferred collapse",
                                  "emission: collapse per component",
                                  "exact-dedup inside steps">>,
                      trace |-> <<"sourceEC", "Step3">>,
                      isRealizable |-> is_realizable])

----------------------------------------------------------------------------
(* Inputs.  The taxonomy and the policy are those of the repository's      *)
(* tests; graphs, assignments and IUCs are drawn from the families below.  *)

R == <<"Region">>
EU == <<"Region", "EU">>
DE == <<"Region", "EU", "DE">>
US == <<"Region", "US">>
AnyR == <<"Region", "<Any>">>
C == <<"Channel">>
B2B == <<"Channel", "B2B">>
B2C == <<"Channel", "B2C">>
AnyC == <<"Channel", "<Any>">>

T(r, c) == << <<"Region", r>>, <<"Channel", c>> >>

GoodTaxonomy ==
    [keys |-> <<"Region", "Channel">>,
     placeholders |-> [Region |-> AnyR, Channel |-> AnyC],
     categories |-> [Region |-> <<R, EU, DE, US>>, Channel |-> <<C, B2B, B2C>>],
     defaults |-> [Channel |-> B2B],
     caseSensitive |-> TRUE]

(* test_orchestrator_returns_validation_envelope_and_stops *)
DupKeyTaxonomy == [GoodTaxonomy EXCEPT !.keys = <<"Region", "Region">>]

TestPolicy ==
    [policyKeys |-> <<"Region", "Channel">>,
     legalTuples |-> <<T(AnyR, B2B), T(EU, AnyC)>>]

AbieIds == {"A1", "A2"}

(* The ASBIE S1 is always present; S2 is absent or one of these shapes. *)
S2Shapes ==
    {[src |-> "A2", tgt |-> "A1", parents |-> {}],
     [src |-> "A2", tgt |-> "A1", parents |-> {"A2"}]}

(* A graph with ABIEs A1, A2, ASBIEs S1 (and S2), BBIEs B1, B2; sp, bp1,   *)
(* bp2 are the sets of ABIEs that list S1, B1, B2 as a child.  All lists   *)
(* are written in ascending id order.                                      *)
MkGraph(root, s1src, s1tgt, sp, s2, bp1, bp2) ==
    LET kidsA(a) == (IF a \in sp THEN <<"S1">> ELSE <<>>)
                    \o (IF s2 # <<>> /\ a \in s2[1].parents THEN <<"S2">> ELSE <<>>)
        kidsB(a) == (IF a \in bp1 THEN <<"B1">> ELSE <<>>)
                    \o (IF a \in bp2 THEN <<"B2">> ELSE <<>>)
    IN  [rootABIE |-> root,
         abies |-> <<[id |-> "A1", childrenBBIE |-> kidsB("A1"), childrenASBIE |-> kidsA("A1")],
                     [id |-> "A2", childrenBBIE |-> kidsB("A2"), childrenASBIE |-> kidsA("A2")]>>,
         asbies |-> <<[id |-> "S1", sourceABIE |-> s1src, targetABIE |-> s1tgt]>>
                    \o (IF s2 = <<>> THEN <<>>
                        ELSE <<[id |-> "S2", sourceABIE |-> s2[1].src, targetABIE |-> s2[1].tgt]>>),
         bbies |-> <<[id |-> "B1", ownerABIE |-> IF bp1 = {"A2"} THEN "A2" ELSE "A1"],
                     [id |-> "B2", ownerABIE |-> IF bp2 = {"A2"} THEN "A2" ELSE "A1"]>>]

(* Which ABIEs list B1 and B2 as children; in the last case no ABIE lists *)
(* B2, which validate_component_graph accepts.                            *)
BbieParents == {<<{"A2"}, {"A1"}>>, <<{"A1", "A2"}, {"A1"}>>, <<{"A2"}, {}>>}

Graphs ==
    {MkGraph(root, s1src, s1tgt, sp, s2, bp[1], bp[2]) :
        root \in AbieIds, s1src \in AbieIds, s1tgt \in AbieIds, sp \in SUBSET AbieIds,
        s2 \in {<<>>} \cup {<<x>> : x \in S2Shapes}, bp \in BbieParents}

(* The graph with every list reversed: same content, other listing order. *)
Relisted(g) ==
    [rootABIE |-> g.rootABIE,
     abies |-> Reverse([i \in DOMAIN g.abies |->
                  [id |-> g.abies[i].id,
                   childrenBBIE |-> Reverse(g.abies[i].childrenBBIE),
                   childrenASBIE |-> Reverse(g.abies[i].childrenASBIE)]]),
     asbies |-> Reverse(g.asbies),
     bbies |-> Reverse(g.bbies)]

(* A graph whose root names no ABIE: rejected by validate_component_graph. *)
(* The shape of the tests' acyclic graph: A1 -S1-> A2, B1 under A1, B2 under A2. *)
TestGraph == MkGraph("A1", "A1", "A2", {"A1"}, <<>>, {"A1"}, {"A2"})

BadRootGraph == [TestGraph EXCEPT !.rootABIE = "A3"]

Entry(cid, tuples) == [componentId |-> cid, tuples |-> tuples]

(* The tuple lists assigned to S1, B1 and B2. *)
AssignCombos ==
    {[s1 |-> <<T(EU, B2B)>>, b1 |-> <<T(EU, B2B)>>, b2 |-> <<T(DE, B2B), << <<"Region", EU>> >> >>],
     [s1 |-> <<T(R, C)>>, b1 |-> <<T(DE, B2B), T(EU, B2B)>>, b2 |-> <<>>],
     [s1 |-> <<T(EU, B2B)>>, b1 |-> <<T(US, B2B)>>, b2 |-> <<T(DE, B2B), << <<"Region", EU>> >> >>],
     [s1 |-> <<T(R, C)>>, b1 |-> <<T(EU, B2B)>>, b2 |-> <<>>]}

(* assignedBusinessContext for a graph: one entry per ASBIE and BBIE. *)
Assignments(g) ==
    {<<Entry("B1", c.b1), Entry("S1", c.s1)>>
       \o (IF Len(g.asbies) = 2 THEN <<Entry("S2", <<T(EU, B2B)>>)>> ELSE <<>>)
       \o <<Entry("B2", c.b2)>> : c \in AssignCombos}

Iuc(id, tuples) == [id |-> id, tuples |-> tuples]

(* Number of IUCs of one run. *)
MaxIucs == 2

IucPools ==
    {<<Iuc("P1", <<T(EU, B2B)>>), Iuc("P2", <<T(US, B2B)>>), Iuc("P3", <<T(R, C)>>)>>,
     <<Iuc("P1", <<T(US, B2B)>>), Iuc("P2", <<T(R, C), T(EU, B2B), T(R, C)>>), Iuc("P3", <<T(EU, B2B)>>)>>,
     <<Iuc("P1", <<T(R, AnyC)>>), Iuc("P2", << << <<"Region", EU>> >> >>), Iuc("P3", <<T(US, B2B)>>)>>,
     <<Iuc("P1", <<T(DE, B2B), << <<"Region", US>> >> >>), Iuc("P2", << << <<"Channel", B2B>> >> >>),
       Iuc("P3", <<T(EU, B2B)>>)>>}

IucLists ==
    {SubSeq(pool, 1, n) : pool \in IucPools, n \in 1..(IF MaxIucs < 3 THEN MaxIucs ELSE 3)}

----------------------------------------------------------------------------
(* Mapping phase (mapping.py, validation.py, mapping_orchestrator.py).     *)

(* {k: t[k] for k in axes if k in t}, then exact dedup. *)
project_tuples(tuples, axes) ==
    _dedup_exact_ordered([i \in DOMAIN tuples |->
        LET present == SelectSeq(axes, LAMBDA k : HasKey(tuples[i], k))
        IN  [p \in DOMAIN present |-> <<present[p], Get(tuples[i], present[p])>>]])

(* The common projected tuples listed in the order of the right list. *)
IntersectInRightOrder(left, right) ==
    _dedup_exact_ordered(SelectSeq(right, LAMBDA x : x \in Range(left)))

intersect_projected(left, right) ==
    _dedup_exact_ordered(SelectSeq(left, LAMBDA x : x \in Range(right)))

classify_component(ec_source_full, ec_target_full, kcd_axes) ==
    LET ec_source_rel == project_tuples(ec_source_full, kcd_axes)
        ec_target_rel == project_tuples(ec_target_full, kcd_axes)
        ec_common == intersect_projected(ec_source_rel, ec_target_rel)
    IN  IF Len(ec_source_rel) = 0 \/ Len(ec_target_rel) = 0
        THEN [decision |-> "NO_MAPPING", ec_source_rel |-> ec_source_rel,
              ec_target_rel |-> ec_target_rel, ec_common |-> <<>>]
        ELSE IF Len(ec_common) > 0
        THEN [decision |-> "SEAMLESS", ec_source_rel |-> ec_source_rel,
              ec_target_rel |-> ec_target_rel, ec_common |-> ec_common]
        ELSE [decision |-> "CONTEXTUAL_TRANSFORM", ec_source_rel |-> ec_source_rel,
              ec_target_rel |-> ec_target_rel, ec_common |-> ec_common]

build_mra(component_id, anchor, relevant_axes, decision, ec_source_full, ec_target_full, ec_common_on_kcd, source_path, target_path) ==
    [componentId |-> component_id,
     anchor |-> anchor,
     relevantAxes |-> relevant_axes,
     decision |-> decision,
     EC_source |-> ec_source_full,
     EC_target |-> ec_target_full,
     EC_common_on_KCD |-> ec_common_on_kcd,
     mappingJson |-> [componentId |-> component_id, sourcePath |-> source_path,
                      targetPath |-> target_path, decision |-> decision,
                      transform |-> IF decision = "SEAMLESS" THEN "identity_or_direct"
                                    ELSE "contextual_transform"],
     explanationJson |-> [componentId |-> component_id,
                          tldr |-> <<decision, " based on KCD comparison">>,
                          relevantAxes |-> relevant_axes, decision |-> decision]]

(* entry.setdefault("relevantAxes", []) on every catalog entry. *)
normalize_mapping_config(mapping_config) ==
    IF "bie_catalog" \notin DOMAIN mapping_config THEN mapping_config
    ELSE [mapping_config EXCEPT !.bie_catalog =
            [c \in DOMAIN mapping_config.bie_catalog |->
                IF "relevantAxes" \in DOMAIN mapping_config.bie_catalog[c]
                THEN mapping_config.bie_catalog[c]
                ELSE [f \in (DOMAIN mapping_config.bie_catalog[c]) \cup {"relevantAxes"} |->
                        IF f = "relevantAxes" THEN <<>> ELSE mapping_config.bie_catalog[c][f]]]]

validate_mapping_config(mapping_config) ==
    LET cfg == normalize_mapping_config(mapping_config) IN
    IF "profilePairs" \notin DOMAIN cfg THEN "mappingConfig.profilePairs is required"
    ELSE IF "bie_catalog" \notin DOMAIN cfg THEN "mappingConfig.bie_catalog is required"
    ELSE IF "schemaPaths" \notin DOMAIN cfg THEN "mappingConfig.schemaPaths is required"
    ELSE LET profile_pairs == cfg.profilePairs
             bie_catalog == cfg.bie_catalog
             schema_paths == cfg.schemaPaths
             pair_msgs == [i \in DOMAIN profile_pairs |->
                 IF \/ "sourceProfileId" \notin DOMAIN profile_pairs[i]
                    \/ profile_pairs[i].sourceProfileId = ""
                 THEN "mappingConfig.profilePairs[].sourceProfileId is required"
                 ELSE IF \/ "targetProfileId" \notin DOMAIN profile_pairs[i]
                         \/ profile_pairs[i].targetProfileId = ""
                 THEN "mappingConfig.profilePairs[].targetProfileId is required"
                 ELSE ""]
             ids == SortedSet(DOMAIN bie_catalog)
             entry_msgs == [p \in DOMAIN ids |->
                 LET entry == bie_catalog[ids[p]] IN
                 IF "anchor" \notin DOMAIN entry \/ entry.anchor = ""
                 THEN "mappingConfig.bie_catalog[].anchor is required"
                 ELSE IF ~IsUniqueSeq(entry.relevantAxes)
                 THEN "mappingConfig.bie_catalog[].relevantAxes must be unique"
                 ELSE ""]
         IN  IF FirstMsg(pair_msgs) # "" THEN FirstMsg(pair_msgs)
             ELSE IF FirstMsg(entry_msgs) # "" THEN FirstMsg(entry_msgs)
             ELSE IF DOMAIN schema_paths # {"source", "target"}
             THEN "mappingConfig.schemaPaths must contain source and target"
             ELSE IF \E c \in DOMAIN schema_paths.source : schema_paths.source[c] = ""
             THEN "mappingConfig.schemaPaths.source[] must be non-empty string"
             ELSE IF \E c \in DOMAIN schema_paths.target : schema_paths.target[c] = ""
             THEN "mappingConfig.schemaPaths.target[] must be non-empty string"
             ELSE ""

KindOrder == <<"ABIE", "ASBIE", "BBIE">>

(* A lookup that reads the ABIE bucket only. *)
ComponentEcAbieOnly(ec_payload, component_id) ==
    IF "ABIE" \in DOMAIN ec_payload /\ component_id \in DOMAIN ec_payload.ABIE
    THEN ec_payload.ABIE[component_id] ELSE <<>>

(* The first bucket, in the order ABIE, ASBIE, BBIE, that holds the id. *)
_component_ec(ec_payload, component_id) ==
    LET hits == {k \in DOMAIN KindOrder :
                    /\ KindOrder[k] \in DOMAIN ec_payload
                    /\ component_id \in DOMAIN ec_payload[KindOrder[k]]}
    IN  IF hits = {} THEN <<>> ELSE ec_payload[KindOrder[MinOf(hits)]][component_id]

(* The MRA records of one profile pair: the body of the inner for-loop. *)
PairMras(source_ec, target_ec, bie_catalog, schema_paths) ==
    LET ids == SortedSet(DOMAIN bie_catalog)
        cls(c) == classify_component(_component_ec(source_ec, c), _component_ec(target_ec, c),
                                     bie_catalog[c].relevantAxes)
        emitted == SelectSeq(ids, LAMBDA c :
                       /\ Len(_component_ec(source_ec, c)) # 0
                       /\ Len(_component_ec(target_ec, c)) # 0
                       /\ cls(c).decision # "NO_MAPPING")
    IN  [p \in DOMAIN emitted |->
            LET c == emitted[p] IN
            build_mra(c, bie_catalog[c].anchor, bie_catalog[c].relevantAxes, cls(c).decision,
                      _component_ec(source_ec, c), _component_ec(target_ec, c), cls(c).ec_common,
                      IF c \in DOMAIN schema_paths.source THEN schema_paths.source[c] ELSE "",
                      IF c \in DOMAIN schema_paths.target THEN schema_paths.target[c] ELSE "")]

----------------------------------------------------------------------------
(* The EC pipeline as a state machine (orchestrator.py, run_ec_pipeline).  *)

VARIABLES
    ec_bundle,   \* argument of run_ec_pipeline
    iucs,        \* argument of run_ec_pipeline
    pc,          \* the stage about to run
    idx,         \* position of the for-loop over iucs (1-based)
    step1,       \* local step1
    step2,       \* local step2
    step3,       \* local step3 of the current iteration
    artifacts,   \* local artifacts dict
    result,      \* the returned value, None while running
    stages,      \* history: the stages executed so far, in order, each with its IUC id
    profiles,        \* argument of run_mapping_pipeline
    mapping_config   \* argument of run_mapping_pipeline

vars == <<ec_bundle, iucs, pc, idx, step1, step2, step3, artifacts, result, stages,
          profiles, mapping_config>>

(* An exception that leaves the entry point. *)
Raised(exc, arg) == [raised |-> exc, arg |-> arg]

_is_envelope(payload) == DOMAIN payload = {"error", "reason", "details"}

Bundle(taxonomy, graph, assignments) ==
    [taxonomy |-> taxonomy, policy |-> TestPolicy, componentGraph |-> graph,
     assignedBusinessContext |-> assignments]

Locals ==
    /\ pc = "validate"
    /\ idx = 0
    /\ step1 = None
    /\ step2 = None
    /\ step3 = None
    /\ artifacts = EmptyDict
    /\ result = None
    /\ stages = <<>>

Init ==
    /\ \/ \E g \in Graphs : \E a \in Assignments(g) :
             ec_bundle = Bundle(GoodTaxonomy, g, a)
       \/ \E g \in {BadRootGraph} : \E a \in Assignments(g) :
             ec_bundle = Bundle(GoodTaxonomy, g, a)
       \/ \E g \in {TestGraph} : \E a \in Assignments(g) :
             ec_bundle = Bundle(DupKeyTaxonomy, g, a)
    /\ iucs \in IucLists
    /\ Locals
    /\ profiles = EmptyDict
    /\ mapping_config = EmptyDict

Validate ==
    /\ pc = "validate"
    /\ stages' = Append(stages, <<"Validation">>)
    /\ LET validation_envelope == validate_ec_inputs(ec_bundle, iucs) IN
       IF validation_envelope # None
       THEN /\ result' = validation_envelope
            /\ pc' = "done"
       ELSE /\ pc' = "step1"
            /\ UNCHANGED result
    /\ UNCHANGED <<profiles, mapping_config, ec_bundle, iucs, idx, step1, step2, step3, artifacts>>

Step1 ==
    /\ pc = "step1"
    /\ stages' = Append(stages, <<"Step1">>)
    /\ step1' = run_step1_prefilter_safe(ec_bundle.assignedBusinessContext, ec_bundle.policy,
                                          ec_bundle.taxonomy)
    /\ IF _is_envelope(step1')
       THEN /\ result' = step1'
            /\ pc' = "done"
       ELSE /\ pc' = "step2"
            /\ UNCHANGED result
    /\ UNCHANGED <<profiles, mapping_config, ec_bundle, iucs, idx, step2, step3, artifacts>>

Step2 ==
    /\ pc = "step2"
    /\ stages' = Append(stages, <<"Step2">>)
    /\ step2' = run_step2_oc_safe(step1.prefiltered, ec_bundle.componentGraph, ec_bundle.taxonomy)
    /\ IF _is_envelope(step2')
       THEN /\ result' = step2'
            /\ pc' = "done"
            /\ UNCHANGED <<artifacts, idx>>
       ELSE /\ artifacts' = Put(Put(EmptyDict, <<"step1-prefiltered.json">>, step1),
                                <<"step2-oc.json">>, step2')
            /\ idx' = 1
            /\ pc' = IF iucs = <<>> THEN "return" ELSE "step3"
            /\ UNCHANGED result
    /\ UNCHANGED <<profiles, mapping_config, ec_bundle, iucs, step1, step3>>

(* Step3 that drops a failing IUC and goes on with the next one. *)
Step3SkipFailedIuc ==
    /\ pc = "step3"
    /\ stages' = Append(stages, <<"Step3", iucs[idx].id>>)
    /\ step3' = run_step3_ec_safe(step2.oc, ec_bundle.componentGraph, ec_bundle.taxonomy,
                                   iucs[idx])
    /\ IF _is_envelope(step3')
       THEN /\ pc' = IF idx = Len(iucs) THEN "return" ELSE "step3"
            /\ idx' = idx + 1
            /\ UNCHANGED <<artifacts, result>>
       ELSE /\ artifacts' = Put(artifacts, <<"step3-ec.", iucs[idx].id, ".json">>, step3')
            /\ pc' = "step4"
            /\ UNCHANGED <<result, idx>>
    /\ UNCHANGED <<profiles, mapping_config, ec_bundle, iucs, step1, step2>>

Step3 ==
    /\ pc = "step3"
    /\ stages' = Append(stages, <<"Step3", iucs[idx].id>>)
    /\ step3' = run_step3_ec_safe(step2.oc, ec_bundle.componentGraph, ec_bundle.taxonomy,
                                   iucs[idx])
    /\ IF _is_envelope(step3')
       THEN /\ result' = step3'
            /\ pc' = "done"
            /\ UNCHANGED artifacts
       ELSE /\ artifacts' = Put(artifacts, <<"step3-ec.", iucs[idx].id, ".json">>, step3')
            /\ pc' = "step4"
            /\ UNCHANGED result
    /\ UNCHANGED <<profiles, mapping_config, ec_bundle, iucs, idx, step1, step2>>

(* The step 4 outcome with every schema stored under the first IUC's id. *)
Step4StoreUnderFirstId(r, profile_id) ==
    IF r.exc # "none"
    THEN /\ result' = build_error_envelope("Step4", <<r.exc, ": ", r.arg>>,
                                           <<"profileId", profile_id>>).val
         /\ pc' = "done"
         /\ UNCHANGED <<artifacts, idx>>
    ELSE /\ artifacts' = Put(artifacts, <<"step4-profile.", iucs[1].id, ".json">>, r.val)
         /\ idx' = idx + 1
         /\ pc' = IF idx = Len(iucs) THEN "return" ELSE "step3"
         /\ UNCHANGED result

(* What run_ec_pipeline does with the result r of the step 4 call: the *)
(* except branch wraps an exception, otherwise the schema is stored.    *)
Step4Outcome(r, profile_id) ==
    IF r.exc # "none"
    THEN /\ result' = build_error_envelope("Step4", <<r.exc, ": ", r.arg>>,
                                           <<"profileId", profile_id>>).val
         /\ pc' = "done"
         /\ UNCHANGED <<artifacts, idx>>
    ELSE /\ artifacts' = Put(artifacts, <<"step4-profile.", profile_id, ".json">>, r.val)
         /\ idx' = idx + 1
         /\ pc' = IF idx = Len(iucs) THEN "return" ELSE "step3"
         /\ UNCHANGED result

Step4 ==
    /\ pc = "step4"
    /\ stages' = Append(stages, <<"Step4", iucs[idx].id>>)
    /\ Step4Outcome(run_step4_profile_schema(step3.ec, ec_bundle.componentGraph, iucs[idx]),
                    iucs[idx].id)
    /\ UNCHANGED <<profiles, mapping_config, ec_bundle, iucs, step1, step2, step3>>

Return ==
    /\ pc = "return"
    /\ result' = [artifacts |-> artifacts, profileIds |-> Ids(iucs)]
    /\ pc' = "done"
    /\ UNCHANGED <<profiles, mapping_config, ec_bundle, iucs, idx, step1, step2, step3, artifacts, stages>>

Next == Validate \/ Step1 \/ Step2 \/ Step3 \/ Step4 \/ Return

Spec == Init /\ [][Next]_vars

----------------------------------------------------------------------------
(* The mapping pipeline as a state machine (mapping_orchestrator.py,       *)
(* run_mapping_pipeline).  One action per stage: the config validation,    *)
(* one iteration of the for-loop over profilePairs, and the final return.  *)

EcPayload(a1, b1) ==
    [ABIE |-> Put(EmptyDict, "A1", a1), ASBIE |-> EmptyDict, BBIE |-> Put(EmptyDict, "B1", b1)]

(* EC payloads as Step 3 emits them, over the components A1 and B1, and *)
(* one that holds the ABIE bucket only.                                 *)
EcPayloads ==
    {EcPayload(a1, b1) : a1 \in {<<>>, <<T(EU, B2B)>>},
                         b1 \in {<<>>, <<T(EU, B2B)>>, <<T(EU, B2B), T(EU, B2C)>>, <<T(DE, B2B)>>,
                                 <<T(US, B2B), T(EU, B2B), T(US, B2C)>>,
                                 <<T(EU, B2C), T(US, B2B)>>}}
        \cup {[ABIE |-> Put(EmptyDict, "A1", <<T(EU, B2B)>>)]}

(* cli.py builds a profile entry as {"ec": ..., "profileSchema": ...}; an *)
(* entry supplied by another caller may lack its ec field.                *)
ProfileEntries ==
    {[ec |-> e, profileSchema |-> EmptyDict] : e \in EcPayloads}
        \cup {[profileSchema |-> EmptyDict]}

ProfileSets ==
    {Put(EmptyDict, "P1", x) : x \in ProfileEntries}
        \cup {Put(Put(EmptyDict, "P1", x), "P2", y) : x \in ProfileEntries, y \in ProfileEntries}

Pair(s, t) == [sourceProfileId |-> s, targetProfileId |-> t]

GoodCatalog ==
    Put(Put(EmptyDict, "A1", [anchor |-> "Order"]),
        "B1", [anchor |-> "Order.Amount", relevantAxes |-> <<"Region">>])

GoodPaths == [source |-> Put(EmptyDict, "B1", "/src/amount"), target |-> EmptyDict]

MappingConfigs ==
    {[profilePairs |-> pp, bie_catalog |-> GoodCatalog, schemaPaths |-> GoodPaths] :
        pp \in {<<>>, <<Pair("P1", "P2")>>, <<Pair("P1", "P2"), Pair("P2", "P1")>>,
                <<Pair("P1", "P1"), Pair("P1", "P2")>>, <<Pair("P1", "")>>}}
        \cup {[profilePairs |-> <<Pair("P1", "P2")>>, bie_catalog |-> GoodCatalog],
              [profilePairs |-> <<Pair("P1", "P2")>>,
               bie_catalog |-> Put(EmptyDict, "B1", [anchor |-> "Order.Amount",
                                                     relevantAxes |-> <<"Region", "Region">>]),
               schemaPaths |-> GoodPaths]}

InitMapping ==
    /\ profiles \in ProfileSets
    /\ mapping_config \in MappingConfigs
    /\ ec_bundle = EmptyDict
    /\ iucs = <<>>
    /\ pc = "map_validate"
    /\ idx = 0
    /\ step1 = None
    /\ step2 = None
    /\ step3 = None
    /\ artifacts = EmptyDict
    /\ result = None
    /\ stages = <<>>

MapValidate ==
    /\ pc = "map_validate"
    /\ stages' = Append(stages, <<"Validation">>)
    /\ IF validate_mapping_config(mapping_config) # ""
       THEN /\ result' = build_error_envelope("Validation",
                             <<validate_mapping_config(mapping_config)>>,
                             <<"stage", "mapping-config">>).val
            /\ pc' = "done"
            /\ UNCHANGED idx
       ELSE /\ idx' = 1
            /\ pc' = IF normalize_mapping_config(mapping_config).profilePairs = <<>>
                     THEN "map_return" ELSE "map_pair"
            /\ UNCHANGED result
    /\ UNCHANGED <<profiles, mapping_config, ec_bundle, iucs, step1, step2, step3, artifacts>>

MapPair ==
    /\ pc = "map_pair"
    /\ stages' = Append(stages, <<"Pair", idx>>)
    /\ LET cfg == normalize_mapping_config(mapping_config)
           pair == cfg.profilePairs[idx]
           source_id == pair.sourceProfileId
           target_id == pair.targetProfileId
       IN  IF source_id \notin DOMAIN profiles \/ target_id \notin DOMAIN profiles
           THEN /\ result' = build_error_envelope("Validation",
                                 <<"profile not found in mapping inputs: ",
                                   source_id, "->", target_id>>,
                                 <<"stage", "profiles">>).val
                /\ pc' = "done"
                /\ UNCHANGED <<artifacts, idx>>
           ELSE IF \/ "ec" \notin DOMAIN profiles[source_id]
                   \/ "ec" \notin DOMAIN profiles[target_id]
           THEN /\ result' = Raised("KeyError", "ec")
                /\ pc' = "done"
                /\ UNCHANGED <<artifacts, idx>>
           ELSE LET mras == PairMras(profiles[source_id].ec, profiles[target_id].ec,
                                     cfg.bie_catalog, cfg.schemaPaths)
                    explanations == [i \in DOMAIN mras |-> mras[i].explanationJson]
                IN  /\ artifacts' =
                          Put(Put(artifacts,
                                  <<"mapping.mra.", source_id, ".", target_id, ".json">>, mras),
                              <<"mapping.explanations.", source_id, ".", target_id, ".json">>,
                              explanations)
                    /\ idx' = idx + 1
                    /\ pc' = IF idx = Len(cfg.profilePairs) THEN "map_return" ELSE "map_pair"
                    /\ UNCHANGED result
    /\ UNCHANGED <<profiles, mapping_config, ec_bundle, iucs, step1, step2, step3>>

MapReturn ==
    /\ pc = "map_return"
    /\ result' = [artifacts |-> artifacts]
    /\ pc' = "done"
    /\ UNCHANGED <<profiles, mapping_config, ec_bundle, iucs, idx, step1, step2, step3,
                   artifacts, stages>>

NextMapping == MapValidate \/ MapPair \/ MapReturn

SpecMapping == InitMapping /\ [][NextMapping]_vars

----------------------------------------------------------------------------
(* run_step4_profile_schema called on its own (step4.py), with any EC      *)
(* payload: buckets may be missing, and may lack or add component ids.     *)

DictOf(keys, v) == [k \in keys |-> v]

Step4Graphs ==
    {MkGraph(root, s1src, s1tgt, {s1src}, s2, {"A1"}, {"A2"}) :
        root \in AbieIds, s1src \in AbieIds, s1tgt \in AbieIds,
        s2 \in {<<>>, <<[src |-> "A2", tgt |-> "A1", parents |-> {}]>>}}
        \cup {BadRootGraph}

AbieBuckets ==
    UNION {[ks -> {<<>>, <<T(EU, B2B)>>}] : ks \in SUBSET AbieIds}

AsbieBuckets ==
    UNION {[ks -> {<<>>, <<T(EU, B2B)>>}] : ks \in {{}, {"S1"}, {"S1", "S2"}}}

(* The last bucket also holds B3, which is no component of the graphs. *)
BbieBuckets ==
    {DictOf({"B1"}, <<>>), DictOf({"B1"}, <<T(EU, B2B), T(US, B2C)>>),
     [k \in {"B1", "B2", "B3"} |-> IF k = "B2" THEN <<T(EU, B2B)>> ELSE <<T(US, B2C)>>]}

Step4Ecs ==
    {[ABIE |-> a, ASBIE |-> s, BBIE |-> b] :
        a \in AbieBuckets, s \in AsbieBuckets, b \in BbieBuckets}
        \cup {[ASBIE |-> s, BBIE |-> b] : s \in AsbieBuckets, b \in BbieBuckets}

InitStep4 ==
    /\ ec_bundle \in {[componentGraph |-> g] : g \in Step4Graphs}
    /\ iucs = <<Iuc("P1", <<T(EU, B2B)>>)>>
    /\ step3 \in {[ec |-> e] : e \in Step4Ecs}
    /\ pc = "call_step4"
    /\ idx = 1
    /\ step1 = None
    /\ step2 = None
    /\ artifacts = EmptyDict
    /\ result = None
    /\ stages = <<>>
    /\ profiles = EmptyDict
    /\ mapping_config = EmptyDict

CallStep4 ==
    /\ pc = "call_step4"
    /\ stages' = Append(stages, <<"Step4", iucs[idx].id>>)
    /\ LET r == run_step4_profile_schema(step3.ec, ec_bundle.componentGraph, iucs[idx]) IN
       result' = IF r.exc # "none" THEN Raised(r.exc, r.arg) ELSE r.val
    /\ pc' = "done"
    /\ UNCHANGED <<profiles, mapping_config, ec_bundle, iucs, idx, step1, step2, step3, artifacts>>

NextStep4 == CallStep4

SpecStep4 == InitStep4 /\ [][NextStep4]_vars

(* The schema a finished call returned, when it returned one. *)
Step4Returned == pc = "done" /\ "isRealizable" \in DOMAIN result

EcAbieNonEmpty(ec, abie_id) ==
    /\ "ABIE" \in DOMAIN ec
    /\ abie_id \in DOMAIN ec.ABIE
    /\ Len(ec.ABIE[abie_id]) > 0

(* C7: in every schema run_step4_profile_schema returns, isRealizable is   *)
(* true exactly when EC.ABIE[rootABIE] is a non-empty list, and when it is *)
(* false no entry of includes.ABIE carries the root's id.                  *)
C7_RealizableIffRootEc ==
    Step4Returned =>
        /\ result.isRealizable <=> EcAbieNonEmpty(step3.ec, result.rootABIE)
        /\ ~result.isRealizable =>
              \A i \in DOMAIN result.includes.ABIE :
                  result.includes.ABIE[i].id # result.rootABIE

(* C7 witness: a returned schema that is not realizable although the root  *)
(* has a (empty) EC list and another ABIE is included.                     *)
C7_Witness ==
    /\ Step4Returned
    /\ ~result.isRealizable
    /\ "ABIE" \in DOMAIN step3.ec
    /\ result.rootABIE \in DOMAIN step3.ec.ABIE
    /\ result.includes.ABIE # <<>>

(* C8: in every schema run_step4_profile_schema returns, the targetABIE of *)
(* each entry of includes.ASBIE has an entry in includes.ABIE exactly when *)
(* EC.ABIE[targetABIE] is a non-empty list.                                *)
C8_TargetIncludedIffEc ==
    Step4Returned =>
        \A i \in DOMAIN result.includes.ASBIE :
            (\E j \in DOMAIN result.includes.ABIE :
                 result.includes.ABIE[j].id = result.includes.ASBIE[i].targetABIE)
            <=> EcAbieNonEmpty(step3.ec, result.includes.ASBIE[i].targetABIE)

(* C8 witness: a returned schema with two included ASBIEs, one whose       *)
(* target is included and one whose target has an empty EC list.           *)
C8_Witness ==
    /\ Step4Returned
    /\ \E i, k \in DOMAIN result.includes.ASBIE :
          /\ EcAbieNonEmpty(step3.ec, result.includes.ASBIE[i].targetABIE)
          /\ "ABIE" \in DOMAIN step3.ec
          /\ result.includes.ASBIE[k].targetABIE \in DOMAIN step3.ec.ABIE
          /\ step3.ec.ABIE[result.includes.ASBIE[k].targetABIE] = <<>>

----------------------------------------------------------------------------
(* Properties of the pipelines.                                            *)

Done == pc = "done"

(* A well-formed error envelope. *)
IsErrorEnvelope(v) ==
    /\ DOMAIN v = {"error", "reason", "details"}
    /\ v.error \in ErrorKinds
    /\ ~ReasonIsEmpty(v.reason)

(* A successful return value of either pipeline. *)
IsSuccess(v) == "artifacts" \in DOMAIN v

(* C1: a pipeline that does not succeed never raises: what it returns is   *)
(* an envelope with exactly the keys error, reason, details, an error of   *)
(* the closed set and a non-empty reason; this covers a mapping input with *)
(* a profile entry that lacks its ec field.                                *)
C1_FailureIsEnvelope ==
    Done => IsSuccess(result) \/ IsErrorEnvelope(result)

(* The stage sequence of a complete run over the given IUCs. *)
ExpectedStages(iuc_list) ==
    <<<<"Validation">>, <<"Step1">>, <<"Step2">>>>
        \o Concat([i \in DOMAIN iuc_list |->
                      <<<<"Step3", iuc_list[i].id>>, <<"Step4", iuc_list[i].id>>>>])

IsPrefix(s, t) == Len(s) <= Len(t) /\ SubSeq(t, 1, Len(s)) = s

(* C2: the stages run in the order Validation, Step1, Step2, then Step3    *)
(* and Step4 per IUC in input order; an envelope yielded by a stage ends   *)
(* the run at that stage and is the whole returned value, with no artifact *)
(* of the stages and IUCs that ran before.                                 *)
C2_StageOrderAndAbort ==
    /\ IsPrefix(stages, ExpectedStages(iucs))
    /\ \A out \in {step1, step2, step3} : _is_envelope(out) => Done /\ result = out
    /\ Done /\ _is_envelope(result) =>
          /\ stages # <<>>
          /\ stages[Len(stages)][1] = result.error
          /\ ~IsSuccess(result)
    /\ Done /\ ~_is_envelope(result) =>
          /\ stages = ExpectedStages(iucs)
          /\ result.artifacts = artifacts

(* C2 witness: the second IUC fails in Step 3 after the first IUC's step3  *)
(* and step4 artifacts were stored; the envelope is what is returned.      *)
C2_Witness ==
    /\ Done
    /\ _is_envelope(result)
    /\ result.error = "Step3"
    /\ idx = 2
    /\ <<"step4-profile.", iucs[1].id, ".json">> \in DOMAIN artifacts
    /\ stages = SubSeq(ExpectedStages(iucs), 1, 6)

(* The ABIE graph with an edge A -> B for each ASBIE having sourceABIE = A *)
(* and targetABIE = B.                                                     *)
AsbieEdges(component_graph) ==
    {<<component_graph.asbies[i].sourceABIE, component_graph.asbies[i].targetABIE>> :
        i \in DOMAIN component_graph.asbies}

(* Pairs joined by a path of one to four edges. *)
Reach(edges) ==
    LET step(paths) ==
            paths \cup UNION {{<<p[1], e[2]>> : e \in {f \in edges : f[1] = p[2]}} : p \in paths}
    IN  step(step(step(edges)))

HasAsbieCycle(component_graph) ==
    \E a \in Range(Ids(component_graph.abies)) : <<a, a>> \in Reach(AsbieEdges(component_graph))

CycleEnvelope(step, reason) ==
    [error |-> step, reason |-> <<reason>>, details |-> <<"stage", "cycle">>]

EmptyOc == [ABIE |-> EmptyDict, ASBIE |-> EmptyDict, BBIE |-> EmptyDict]

Validated == validate_ec_inputs(ec_bundle, iucs) = None

(* C3: for a validated graph, run_step2_oc_safe returns the Step2 cycle    *)
(* envelope and run_step3_ec_safe the Step3 cycle envelope exactly when    *)
(* the sourceABIE -> targetABIE graph of the ASBIEs has a cycle.           *)
C3_CycleEnvelopeIffAsbieCycle ==
    step2 # None =>
        /\ HasAsbieCycle(ec_bundle.componentGraph)
              <=> step2 = CycleEnvelope("Step2", "OC_non_convergent_cycle")
        /\ HasAsbieCycle(ec_bundle.componentGraph)
              <=> run_step3_ec_safe(EmptyOc, ec_bundle.componentGraph, ec_bundle.taxonomy,
                                    iucs[1]) = CycleEnvelope("Step3", "EC_non_convergent_cycle")

(* C4: a validated bundle whose component graph has a cycle makes the      *)
(* pipeline return the Step2 cycle envelope, and the pipeline never        *)
(* returns the Step3 cycle envelope.                                       *)
C4_PipelineCycleIsStep2 ==
    Done =>
        /\ Validated /\ HasAsbieCycle(ec_bundle.componentGraph)
              => result = CycleEnvelope("Step2", "OC_non_convergent_cycle")
        /\ result # CycleEnvelope("Step3", "EC_non_convergent_cycle")

Graph == ec_bundle.componentGraph

Step3Key(iuc) == <<"step3-ec.", iuc.id, ".json">>

Step4Key(iuc) == <<"step4-profile.", iuc.id, ".json">>

(* C5: step 2, step 3 and step 4 give the same oc, ec and profile schema,  *)
(* tuple order included, when the abies, asbies, bbies lists and every     *)
(* childrenASBIE / childrenBBIE list are given in another order.           *)
C5_ListingOrderIrrelevant ==
    /\ step2 # None =>
          run_step2_oc_safe(step1.prefiltered, Relisted(Graph), ec_bundle.taxonomy) = step2
    /\ pc = "step4" \/ (Done /\ step3 # None /\ _is_envelope(step3)) =>
          run_step3_ec_safe(step2.oc, Relisted(Graph), ec_bundle.taxonomy, iucs[idx]) = step3
    /\ \A i \in DOMAIN iucs :
          Step4Key(iucs[i]) \in DOMAIN artifacts =>
              run_step4_profile_schema(artifacts[Step3Key(iucs[i])].ec, Relisted(Graph),
                                       iucs[i]).val = artifacts[Step4Key(iucs[i])]

(* C5 witness: a finished successful run on a graph in which one ABIE      *)
(* lists two BBIEs with different non-empty OC lists and whose reversed    *)
(* listing is another graph.                                               *)
C5_Witness ==
    /\ Done
    /\ IsSuccess(result)
    /\ Relisted(Graph) # Graph
    /\ \E i \in DOMAIN Graph.abies :
          /\ Graph.abies[i].childrenBBIE = <<"B1", "B2">>
          /\ step2.oc.BBIE["B1"] # <<>>
          /\ step2.oc.BBIE["B2"] # <<>>
          /\ step2.oc.BBIE["B1"] # step2.oc.BBIE["B2"]
          /\ Len(step2.oc.ABIE[Graph.abies[i].id]) >= 2

(* a is d or a proper ancestor of d: a's segments are a prefix of d's. *)
AncestorOrEqual(a, d) == Len(a) <= Len(d) /\ SubSeq(d, 1, Len(a)) = a

StrictAncestorOnAllKeys(anc, desc, keys) ==
    /\ \A k \in DOMAIN keys : AncestorOrEqual(Get(anc, keys[k]), Get(desc, keys[k]))
    /\ \E k \in DOMAIN keys : Get(anc, keys[k]) # Get(desc, keys[k])

EcKinds == {"ABIE", "ASBIE", "BBIE"}

(* C6: in every successful step 3 output no tuple of a component's EC list *)
(* is a strict ancestor, on all taxonomy keys, of another tuple of that    *)
(* list.                                                                   *)
C6_EcListsAreAntichains ==
    step3 # None /\ ~_is_envelope(step3) =>
        \A kind \in EcKinds : \A c \in DOMAIN step3.ec[kind] :
            \A x, y \in DOMAIN step3.ec[kind][c] :
                x # y => ~StrictAncestorOnAllKeys(step3.ec[kind][c][y], step3.ec[kind][c][x],
                                                  ec_bundle.taxonomy.keys)

(* C6 witness: step 3 succeeded, the collapse removed a tuple from a list  *)
(* that the top-down loop had produced, and some EC list keeps two tuples. *)
C6_Witness ==
    /\ pc = "step4"
    /\ \E kind \in EcKinds : \E c \in DOMAIN step3.ec[kind] :
          /\ step3.ec[kind][c] # <<>>
          /\ Len(step3.ec[kind][c]) <
                Len(Step3Propagate(step2.oc, Graph, ec_bundle.taxonomy, iucs[idx]).val[kind][c])
    /\ \E kind \in EcKinds : \E c \in DOMAIN step3.ec[kind] : Len(step3.ec[kind][c]) >= 2

(* C9: in every profile schema the pipeline emits, each entry of           *)
(* includes.ASBIE has its targetABIE among the ids of includes.ABIE.       *)
C9_IncludedAsbieTargetIncluded ==
    \A i \in DOMAIN iucs :
        Step4Key(iucs[i]) \in DOMAIN artifacts =>
            LET includes == artifacts[Step4Key(iucs[i])].includes IN
            \A s \in DOMAIN includes.ASBIE :
                \E a \in DOMAIN includes.ABIE : includes.ABIE[a].id = includes.ASBIE[s].targetABIE

NoDup(l) == \A i, j \in DOMAIN l : l[i] = l[j] => i = j

(* The elements of a production sequence at their first occurrence. *)
FirstOcc(produced) ==
    LET first == SelectSeq([i \in DOMAIN produced |-> i],
                           LAMBDA i : \A j \in 1..(i - 1) : produced[j] # produced[i])
    IN  [p \in DOMAIN first |-> produced[first[p]]]

(* l keeps some elements of a duplicate-free sequence, in its order. *)
KeepsOrderOf(l, produced) ==
    /\ NoDup(l)
    /\ Range(l) \subseteq Range(produced)
    /\ \A i, j \in DOMAIN l :
          i < j => \E p, q \in DOMAIN produced : p < q /\ produced[p] = l[i] /\ produced[q] = l[j]

(* The defined meets of two lists in production (left-major) order. *)
RawMeets(left_set, right_set, taxonomy) ==
    Concat([i \in DOMAIN left_set |->
        Concat([j \in DOMAIN right_set |->
            IF _intersect_tuple(left_set[i], right_set[j], taxonomy).defined
            THEN <<_intersect_tuple(left_set[i], right_set[j], taxonomy).val>>
            ELSE <<>>])])

(* What the witness loop of step 1 produced for one log entry. *)
RawNarrowed(entry) ==
    WitnessLoop(_normalize_tuple(entry.tupleBefore, ec_bundle.taxonomy).normalized,
                ec_bundle.policy, ec_bundle.taxonomy).narrowed

PrefTuples(prefiltered, cid) ==
    Concat([i \in DOMAIN prefiltered |->
               IF prefiltered[i].componentId = cid THEN prefiltered[i].tuples ELSE <<>>])

Step1Emitted(out) ==
    /\ \A i \in DOMAIN out.log :
          out.log[i].action # "dropped" => out.log[i].tuplesAfter = FirstOcc(RawNarrowed(out.log[i]))
    /\ \A i \in DOMAIN out.prefiltered :
          out.prefiltered[i].tuples =
              FirstOcc(Concat([k \in DOMAIN out.log |->
                          IF out.log[k].componentId = out.prefiltered[i].componentId
                          THEN out.log[k].tuplesAfter ELSE <<>>]))

Step2Emitted(oc, prefiltered) ==
    /\ \A b \in DOMAIN oc.BBIE : oc.BBIE[b] = PrefTuples(prefiltered, b)
    /\ \A i \in DOMAIN Graph.abies :
          LET kids == SortedSet(Range(Graph.abies[i].childrenASBIE))
              bkids == SortedSet(Range(Graph.abies[i].childrenBBIE))
          IN  /\ oc.ABIE[Graph.abies[i].id] =
                    FirstOcc(Concat([k \in DOMAIN kids |-> oc.ASBIE[kids[k]]])
                             \o Concat([k \in DOMAIN bkids |-> oc.BBIE[bkids[k]]]))
              /\ \A k \in DOMAIN kids :
                    oc.ASBIE[kids[k]] =
                        FirstOcc(RawMeets(PrefTuples(prefiltered, kids[k]),
                                          oc.ABIE[ById(Graph.asbies, kids[k]).targetABIE],
                                          ec_bundle.taxonomy))

Step3Emitted(ec, oc, iuc) ==
    \A kind \in EcKinds : \A c \in DOMAIN ec[kind] :
        KeepsOrderOf(ec[kind][c],
                     Step3Propagate(oc, Graph, ec_bundle.taxonomy, iuc).val[kind][c])

Step4Emitted(schema, ec) ==
    \A kind \in EcKinds : \A e \in DOMAIN schema.includes[kind] :
        /\ schema.includes[kind][e].ecTuples = ec[kind][schema.includes[kind][e].id]
        /\ NoDup(schema.includes[kind][e].ecTuples)

(* C10: in the artifacts of a successful run every emitted tuple list      *)
(* (prefiltered tuples, tuplesAfter, OC lists, EC lists, ecTuples) has no  *)
(* two equal tuples and keeps its tuples in the order of first production. *)
C10_NoDuplicatesFirstProducedOrder ==
    Done /\ IsSuccess(result) =>
        LET a == result.artifacts
            s1 == a[<<"step1-prefiltered.json">>]
            s2 == a[<<"step2-oc.json">>]
        IN  /\ Step1Emitted(s1)
            /\ Step2Emitted(s2.oc, s1.prefiltered)
            /\ \A i \in DOMAIN iucs :
                  /\ Step3Emitted(a[Step3Key(iucs[i])].ec, s2.oc, iucs[i])
                  /\ Step4Emitted(a[Step4Key(iucs[i])], a[Step3Key(iucs[i])].ec)

(* C10 witness: a successful run in which step 1 produced the same tuple   *)
(* twice for one assigned tuple, an ABIE's children carried a common tuple *)
(* and the emitted OC list of that ABIE still holds two tuples.            *)
C10_Witness ==
    /\ Done
    /\ IsSuccess(result)
    /\ \E i \in DOMAIN step1.log :
          /\ step1.log[i].action # "dropped"
          /\ Len(RawNarrowed(step1.log[i])) > Len(step1.log[i].tuplesAfter)
    /\ \E i \in DOMAIN Graph.abies :
          /\ Len(step2.oc.ABIE[Graph.abies[i].id]) >= 2
          /\ Len(Concat([k \in DOMAIN Graph.abies[i].childrenASBIE |->
                            step2.oc.ASBIE[Graph.abies[i].childrenASBIE[k]]])
                 \o Concat([k \in DOMAIN Graph.abies[i].childrenBBIE |->
                               step2.oc.BBIE[Graph.abies[i].childrenBBIE[k]]]))
                > Len(step2.oc.ABIE[Graph.abies[i].id])

----------------------------------------------------------------------------
(* _dedup_exact_ordered and _collapse_ancestor_preferred called on their   *)
(* own (step3.py), twice in a row, on lists of complete tuples.            *)

(* Longest list handed to the two functions. *)
MaxLen == 3

LowerTaxonomy == [GoodTaxonomy EXCEPT !.caseSensitive = FALSE]

(* Complete tuples: ancestors and descendants of each other, a placeholder, *)
(* a token differing in case only, and a tuple with its keys in the other   *)
(* order.                                                                   *)
AlgebraTuples ==
    {T(R, C), T(EU, B2B), T(DE, B2B), T(US, B2C), T(AnyR, B2B),
     T(<<"Region", "eu">>, B2B), << <<"Channel", B2B>>, <<"Region", EU>> >>}

AlgebraLists == UNION {[1..n -> AlgebraTuples] : n \in 0..MaxLen}

InitAlgebra ==
    /\ ec_bundle \in {[taxonomy |-> t] : t \in {GoodTaxonomy, LowerTaxonomy}}
    /\ iucs \in {<<Iuc("P1", l)>> : l \in AlgebraLists}
    /\ pc \in {"dedup", "collapse"}
    /\ idx = 1
    /\ step1 = None
    /\ step2 = None
    /\ step3 = None
    /\ artifacts = EmptyDict
    /\ result = None
    /\ stages = <<>>
    /\ profiles = EmptyDict
    /\ mapping_config = EmptyDict

(* First call of _dedup_exact_ordered, on the input list. *)
DedupOnce ==
    /\ pc = "dedup"
    /\ stages' = Append(stages, <<"dedup">>)
    /\ step1' = _dedup_exact_ordered(iucs[idx].tuples)
    /\ pc' = "dedup_again"
    /\ UNCHANGED <<profiles, mapping_config, ec_bundle, iucs, idx, step2, step3, artifacts, result>>

(* Second call, on the first call's output. *)
DedupTwice ==
    /\ pc = "dedup_again"
    /\ stages' = Append(stages, <<"dedup">>)
    /\ step2' = _dedup_exact_ordered(step1)
    /\ result' = step2'
    /\ pc' = "done"
    /\ UNCHANGED <<profiles, mapping_config, ec_bundle, iucs, idx, step1, step3, artifacts>>

(* First call of _collapse_ancestor_preferred, on the input list. *)
CollapseOnce ==
    /\ pc = "collapse"
    /\ stages' = Append(stages, <<"collapse">>)
    /\ step1' = _collapse_ancestor_preferred(iucs[idx].tuples, ec_bundle.taxonomy)
    /\ pc' = "collapse_again"
    /\ UNCHANGED <<profiles, mapping_config, ec_bundle, iucs, idx, step2, step3, artifacts, result>>

(* Second call, on the first call's output. *)
CollapseTwice ==
    /\ pc = "collapse_again"
    /\ stages' = Append(stages, <<"collapse">>)
    /\ step2' = _collapse_ancestor_preferred(step1, ec_bundle.taxonomy)
    /\ result' = step2'
    /\ pc' = "done"
    /\ UNCHANGED <<profiles, mapping_config, ec_bundle, iucs, idx, step1, step3, artifacts>>

NextAlgebra == DedupOnce \/ DedupTwice \/ CollapseOnce \/ CollapseTwice

SpecAlgebra == InitAlgebra /\ [][NextAlgebra]_vars

(* C11: exact dedup and ancestor-preferred collapse are idempotent: the    *)
(* second application to the output of the first returns the same list,    *)
(* same tuples in the same order.                                          *)
C11_DedupCollapseIdempotent ==
    pc = "done" => step2 = step1

(* C11 witness: a finished double collapse whose first application removed *)
(* a tuple from a duplicate-free list and left at least two tuples.        *)
C11_Witness ==
    /\ pc = "done"
    /\ stages = << <<"collapse">>, <<"collapse">> >>
    /\ Cardinality(Range(iucs[1].tuples)) = Len(iucs[1].tuples)
    /\ Len(step1) < Len(iucs[1].tuples)
    /\ Len(step1) >= 2
    /\ step2 = step1

----------------------------------------------------------------------------
(* run_ec_pipeline on bundles whose tuples list their keys in either order. *)

(* The same tuple with its keys listed in the opposite order. *)
Swapped(tuple) == Reverse(tuple)

SwappedList(tuples) == [i \in DOMAIN tuples |-> Swapped(tuples[i])]

SwappedPolicy ==
    [policyKeys |-> Reverse(TestPolicy.policyKeys),
     legalTuples |-> SwappedList(TestPolicy.legalTuples)]

KeyOrderGraphs ==
    {MkGraph("A1", "A1", "A2", sp, <<>>, bp[1], bp[2]) :
        sp \in {{}, {"A1"}}, bp \in BbieParents}

KeyOrderAssignments(g) ==
    Assignments(g) \cup
        {[i \in DOMAIN a |-> Entry(a[i].componentId, SwappedList(a[i].tuples))] :
            a \in Assignments(g)}

KeyOrderIucLists ==
    IucLists \cup {[i \in DOMAIN l |-> Iuc(l[i].id, SwappedList(l[i].tuples))] : l \in IucLists}

InitKeyOrder ==
    /\ \E g \in KeyOrderGraphs : \E a \in KeyOrderAssignments(g) :
          \E p \in {TestPolicy, SwappedPolicy} :
             ec_bundle = [taxonomy |-> GoodTaxonomy, policy |-> p, componentGraph |-> g,
                          assignedBusinessContext |-> a]
    /\ iucs \in KeyOrderIucLists
    /\ Locals
    /\ profiles = EmptyDict
    /\ mapping_config = EmptyDict

SpecKeyOrder == InitKeyOrder /\ [][Next]_vars

KeysOf(tuple) == [i \in DOMAIN tuple |-> tuple[i][1]]

(* Every tuple of every list of a dict of lists lists exactly keys, in order. *)
BucketInKeyOrder(bucket, keys) ==
    \A k \in DOMAIN bucket : \A i \in DOMAIN bucket[k] : KeysOf(bucket[k][i]) = keys

ArtifactInKeyOrder(artifact, keys) ==
    /\ "prefiltered" \in DOMAIN artifact =>
          \A e \in DOMAIN artifact.prefiltered :
              \A i \in DOMAIN artifact.prefiltered[e].tuples :
                  KeysOf(artifact.prefiltered[e].tuples[i]) = keys
    /\ "oc" \in DOMAIN artifact =>
          \A kind \in DOMAIN artifact.oc : BucketInKeyOrder(artifact.oc[kind], keys)
    /\ "ec" \in DOMAIN artifact =>
          \A kind \in DOMAIN artifact.ec : BucketInKeyOrder(artifact.ec[kind], keys)

(* C12: in a successful run of run_ec_pipeline every tuple of the step 1   *)
(* prefiltered lists and of the OC and EC maps lists exactly the keys of   *)
(* the taxonomy, in the order of taxonomy.keys, whatever the key order of  *)
(* the assignment, policy and IUC tuples.                                  *)
C12_EmittedTuplesInTaxonomyKeyOrder ==
    (Done /\ IsSuccess(result)) =>
        \A name \in DOMAIN result.artifacts :
            ArtifactInKeyOrder(result.artifacts[name], ec_bundle.taxonomy.keys)

(* C12 witness: a successful run whose assignment, policy and IUC tuples   *)
(* list Channel before Region, one assignment tuple lacking Channel, with  *)
(* a non-empty prefiltered list, OC list and EC list among its artifacts.  *)
C12_Witness ==
    /\ Done
    /\ IsSuccess(result)
    /\ ec_bundle.policy = SwappedPolicy
    /\ \A e \in DOMAIN ec_bundle.assignedBusinessContext :
          \A i \in DOMAIN ec_bundle.assignedBusinessContext[e].tuples :
              ec_bundle.assignedBusinessContext[e].tuples[i][1][1] # "Region"
              \/ Len(ec_bundle.assignedBusinessContext[e].tuples[i]) = 1
    /\ \E e \in DOMAIN ec_bundle.assignedBusinessContext :
          \E i \in DOMAIN ec_bundle.assignedBusinessContext[e].tuples :
              Len(ec_bundle.assignedBusinessContext[e].tuples[i]) = 1
    /\ \A i \in DOMAIN iucs : \A j \in DOMAIN iucs[i].tuples :
          KeysOf(iucs[i].tuples[j]) = <<"Channel", "Region">>
    /\ result.artifacts[<<"step1-prefiltered.json">>].prefiltered # <<>>
    /\ \E k \in DOMAIN result.artifacts[<<"step2-oc.json">>].oc.ABIE :
          result.artifacts[<<"step2-oc.json">>].oc.ABIE[k] # <<>>
    /\ \E i \in DOMAIN iucs :
          \E k \in DOMAIN result.artifacts[<<"step3-ec.", iucs[i].id, ".json">>].ec.BBIE :
              result.artifacts[<<"step3-ec.", iucs[i].id, ".json">>].ec.BBIE[k] # <<>>

----------------------------------------------------------------------------
(* validate_ec_inputs called on its own (validation.py), on bundles whose  *)
(* sections are valid or invalid independently of each other, or missing.  *)

ValidTaxonomies == {GoodTaxonomy, LowerTaxonomy}

(* A taxonomy that declares no key at all. *)
EmptyKeysTaxonomy ==
    [keys |-> <<>>, placeholders |-> EmptyDict, categories |-> EmptyDict,
     defaults |-> EmptyDict, caseSensitive |-> TRUE]

(* A repeated key (the tests); and no key. *)
InvalidTaxonomies == {DupKeyTaxonomy, EmptyKeysTaxonomy}

(* A policy over no key, with no legal tuple. *)
EmptyPolicy == [policyKeys |-> <<>>, legalTuples |-> <<>>]

ValidPolicies == {TestPolicy, SwappedPolicy, EmptyPolicy}

(* test_validate_ec_inputs_maps_failures_to_validation_envelope: a policy   *)
(* key outside the taxonomy; and a legal tuple that lacks a policy key.     *)
InvalidPolicies ==
    {[policyKeys |-> <<"Region", "Missing">>, legalTuples |-> TestPolicy.legalTuples],
     [policyKeys |-> <<"Region", "Channel">>, legalTuples |-> << << <<"Region", EU>> >> >>]}

ValidGraphs == {TestGraph}

(* A root that is no ABIE; and an ASBIE whose targetABIE is no ABIE. *)
InvalidGraphs ==
    {BadRootGraph,
     [TestGraph EXCEPT !.asbies = <<[id |-> "S1", sourceABIE |-> "A1", targetABIE |-> "A9"]>>]}

ValidAssignments == {<<>>, <<Entry("B1", <<T(EU, B2B)>>), Entry("S1", << << <<"Region", EU>> >> >>)>>}

(* A component id that is no BBIE or ASBIE; and a tuple key outside the taxonomy. *)
InvalidAssignments ==
    {<<Entry("B9", <<>>)>>,
     <<Entry("B1", << << <<"Region", EU>>, <<"UnknownAxis", <<"X">> >> >> >>)>>}

ValidIucs == {<<>>, <<Iuc("P1", <<T(EU, B2B)>>), Iuc("P2", <<T(US, B2B)>>)>>}

(* A tuple key outside the taxonomy; and a repeated id. *)
InvalidIucs ==
    {<<Iuc("P1", << << <<"Region", EU>>, <<"UnknownAxis", <<"X">> >> >> >>)>>,
     <<Iuc("P1", <<T(EU, B2B)>>), Iuc("P1", <<T(US, B2B)>>)>>}

(* The bundle restricted to the sections present. *)
Restrict(bundle, present) == [k \in present |-> bundle[k]]

InitValidation ==
    /\ \E t \in ValidTaxonomies \cup InvalidTaxonomies :
       \E p \in ValidPolicies \cup InvalidPolicies :
       \E g \in ValidGraphs \cup InvalidGraphs :
       \E a \in ValidAssignments \cup InvalidAssignments :
       \E present \in SUBSET Range(RequiredSections) :
          ec_bundle = Restrict([taxonomy |-> t, policy |-> p, componentGraph |-> g,
                                assignedBusinessContext |-> a], present)
    /\ iucs \in ValidIucs \cup InvalidIucs
    /\ pc = "call_validate"
    /\ idx = 0
    /\ step1 = None
    /\ step2 = None
    /\ step3 = None
    /\ artifacts = EmptyDict
    /\ result = [pending |-> TRUE]
    /\ stages = <<>>
    /\ profiles = EmptyDict
    /\ mapping_config = EmptyDict

CallValidate ==
    /\ pc = "call_validate"
    /\ stages' = Append(stages, <<"Validation">>)
    /\ result' = validate_ec_inputs(ec_bundle, iucs)
    /\ pc' = "done"
    /\ UNCHANGED <<profiles, mapping_config, ec_bundle, iucs, idx, step1, step2, step3, artifacts>>

NextValidation == CallValidate

SpecValidation == InitValidation /\ [][NextValidation]_vars

(* The sections in the order of the claim, after the bundle itself. *)
SectionOrder == <<"bundle", "taxonomy", "policy", "componentGraph", "assignedBusinessContext", "iucs">>

(* Whether a section is invalid, by the family its value was drawn from. *)
SectionInvalid(section, bundle, iuc_list) ==
    CASE section = "bundle" -> ~(Range(RequiredSections) \subseteq DOMAIN bundle)
      [] section = "taxonomy" -> bundle.taxonomy \notin ValidTaxonomies
      [] section = "policy" -> bundle.policy \notin ValidPolicies
      [] section = "componentGraph" -> bundle.componentGraph \notin ValidGraphs
      [] section = "assignedBusinessContext" -> bundle.assignedBusinessContext \notin ValidAssignments
      [] section = "iucs" -> iuc_list \notin ValidIucs

(* The positions in SectionOrder of the invalid sections; when the bundle *)
(* lacks a section only the bundle itself counts.                         *)
InvalidSections(bundle, iuc_list) ==
    IF SectionInvalid("bundle", bundle, iuc_list) THEN {1}
    ELSE {i \in 2..Len(SectionOrder) : SectionInvalid(SectionOrder[i], bundle, iuc_list)}

(* C13: validate_ec_inputs returns None exactly when no section is invalid; *)
(* otherwise it returns the Validation envelope of the first invalid        *)
(* section in the order bundle, taxonomy, policy, componentGraph,           *)
(* assignedBusinessContext, iucs: details.section is that section's name    *)
(* and reason starts with it.                                               *)
C13_FirstInvalidSectionReported ==
    Done =>
        LET bad == InvalidSections(ec_bundle, iucs) IN
        /\ (result = None) <=> (bad = {})
        /\ bad # {} =>
              /\ IsErrorEnvelope(result)
              /\ result.error = "Validation"
              /\ result.details = <<"section", SectionOrder[MinOf(bad)]>>
              /\ result.reason[1] = SectionOrder[MinOf(bad)]

----------------------------------------------------------------------------
(* The artifacts of a successful run_ec_pipeline run.                       *)

ExpectedArtifactNames(iuc_list) ==
    {<<"step1-prefiltered.json">>, <<"step2-oc.json">>}
        \cup {Step3Key(iuc_list[i]) : i \in DOMAIN iuc_list}
        \cup {Step4Key(iuc_list[i]) : i \in DOMAIN iuc_list}

(* C14: when run_ec_pipeline succeeds, the names of its artifacts are      *)
(* exactly step1-prefiltered.json, step2-oc.json and, per IUC id,          *)
(* step3-ec.<id>.json and step4-profile.<id>.json (2 + 2 * |iucs| names),  *)
(* profileIds lists the IUC ids in input order, and the step 3 and step 4  *)
(* artifacts stored under an id are those computed from the IUC of that id. *)
C14_ArtifactsOfSuccess ==
    (Done /\ IsSuccess(result)) =>
        /\ DOMAIN result.artifacts = ExpectedArtifactNames(iucs)
        /\ Cardinality(DOMAIN result.artifacts) = 2 + 2 * Len(iucs)
        /\ result.profileIds = [i \in DOMAIN iucs |-> iucs[i].id]
        /\ \A i \in DOMAIN iucs :
              /\ result.artifacts[Step3Key(iucs[i])] =
                     run_step3_ec_safe(result.artifacts[<<"step2-oc.json">>].oc, Graph,
                                       ec_bundle.taxonomy, iucs[i])
              /\ result.artifacts[Step4Key(iucs[i])] =
                     run_step4_profile_schema(result.artifacts[Step3Key(iucs[i])].ec, Graph,
                                              iucs[i]).val
              /\ result.artifacts[Step4Key(iucs[i])].profileId = iucs[i].id

(* C14 witness: a successful run over two IUCs whose step 3 artifacts and  *)
(* whose step 4 artifacts differ from each other.                          *)
C14_Witness ==
    /\ Done
    /\ IsSuccess(result)
    /\ Len(iucs) = 2
    /\ result.artifacts[Step3Key(iucs[1])] # result.artifacts[Step3Key(iucs[2])]
    /\ result.artifacts[Step4Key(iucs[1])].includes # result.artifacts[Step4Key(iucs[2])].includes

----------------------------------------------------------------------------
(* The MRA records of run_mapping_pipeline.                                *)

(* The names of the MRA artifacts stored so far. *)
MraNames == {n \in DOMAIN artifacts : n[1] = "mapping.mra."}

(* The projection of one tuple onto the axes it defines, as a dict. *)
ProjectionOf(tuple, axes) ==
    {<<axes[k], Get(tuple, axes[k])>> : k \in {j \in DOMAIN axes : HasKey(tuple, axes[j])}}

(* The projections of a list, in list order, each written in axes order. *)
ProjectedInOrder(tuples, axes) ==
    [i \in DOMAIN tuples |->
        LET present == SelectSeq(axes, LAMBDA k : HasKey(tuples[i], k))
        IN  [p \in DOMAIN present |-> <<present[p], Get(tuples[i], present[p])>>]]

(* C15: in every MRA record, decision is SEAMLESS exactly when some tuple  *)
(* of EC_source and some tuple of EC_target have equal projections onto    *)
(* relevantAxes, and CONTEXTUAL_TRANSFORM otherwise; EC_common_on_KCD is   *)
(* the projected source tuples that occur among the projected target       *)
(* tuples, without duplicates, in source order.                            *)
C15_DecisionAndCommonOnKcd ==
    \A n \in MraNames : \A i \in DOMAIN artifacts[n] :
        LET mra == artifacts[n][i]
            src == ProjectedInOrder(mra.EC_source, mra.relevantAxes)
            tgt == ProjectedInOrder(mra.EC_target, mra.relevantAxes)
            meet == \E x \in Range(mra.EC_source) : \E y \in Range(mra.EC_target) :
                        ProjectionOf(x, mra.relevantAxes) = ProjectionOf(y, mra.relevantAxes)
        IN  /\ mra.decision = IF meet THEN "SEAMLESS" ELSE "CONTEXTUAL_TRANSFORM"
            /\ mra.EC_common_on_KCD =
                   FirstOcc(SelectSeq(src, LAMBDA x : \E q \in DOMAIN tgt : tgt[q] = x))

(* C15 witness: a SEAMLESS record whose source lists three tuples with two *)
(* distinct projections, both common, which the target lists in the        *)
(* opposite order.                                                         *)
C15_Witness ==
    \E n \in MraNames : \E i \in DOMAIN artifacts[n] :
        /\ artifacts[n][i].decision = "SEAMLESS"
        /\ Len(artifacts[n][i].EC_source) = 3
        /\ Len(artifacts[n][i].EC_common_on_KCD) = 2
        /\ artifacts[n][i].EC_common_on_KCD =
              Reverse(ProjectedInOrder(artifacts[n][i].EC_target, artifacts[n][i].relevantAxes))

(* A CONTEXTUAL_TRANSFORM record has been emitted. *)
ContextualEmitted ==
    \E n \in MraNames : \E i \in DOMAIN artifacts[n] :
        artifacts[n][i].decision = "CONTEXTUAL_TRANSFORM"

(* The source and target profile ids in the name of an MRA artifact. *)
SourceOf(name) == name[2]

TargetOf(name) == name[4]

(* The EC list of a component: of the first of the buckets ABIE, ASBIE, *)
(* BBIE that holds its id; empty when none does.                        *)
LookupEc(ec_payload, component_id) ==
    IF "ABIE" \in DOMAIN ec_payload /\ component_id \in DOMAIN ec_payload.ABIE
    THEN ec_payload.ABIE[component_id]
    ELSE IF "ASBIE" \in DOMAIN ec_payload /\ component_id \in DOMAIN ec_payload.ASBIE
    THEN ec_payload.ASBIE[component_id]
    ELSE IF "BBIE" \in DOMAIN ec_payload /\ component_id \in DOMAIN ec_payload.BBIE
    THEN ec_payload.BBIE[component_id]
    ELSE <<>>

(* C16: for each processed profile pair a bie_catalog component has an MRA *)
(* record exactly when its source EC and its target EC are both non-empty  *)
(* (a missing id counts as empty), and no record carries the decision      *)
(* NO_MAPPING, whatever its relevantAxes, the empty list included.         *)
C16_RecordIffBothEcNonEmpty ==
    \A n \in MraNames :
        /\ \A c \in DOMAIN mapping_config.bie_catalog :
              (\E i \in DOMAIN artifacts[n] : artifacts[n][i].componentId = c)
              <=> /\ LookupEc(profiles[SourceOf(n)].ec, c) # <<>>
                  /\ LookupEc(profiles[TargetOf(n)].ec, c) # <<>>
        /\ \A i \in DOMAIN artifacts[n] :
              /\ artifacts[n][i].componentId \in DOMAIN mapping_config.bie_catalog
              /\ artifacts[n][i].decision # "NO_MAPPING"

(* C16 witness: a pair whose only record is the one of A1, which has no    *)
(* relevant axis, while B1 has a non-empty source EC and is in no bucket   *)
(* of the target.                                                          *)
C16_Witness ==
    \E n \in MraNames :
        /\ Len(artifacts[n]) = 1
        /\ artifacts[n][1].componentId = "A1"
        /\ artifacts[n][1].relevantAxes = <<>>
        /\ LookupEc(profiles[SourceOf(n)].ec, "B1") # <<>>
        /\ "BBIE" \notin DOMAIN profiles[TargetOf(n)].ec

(* The position of an id in the ascending order of ids. *)
Rank(id) == CHOOSE k \in DOMAIN IdOrder : IdOrder[k] = id

(* The name of the explanations artifact of the pair of an MRA artifact. *)
ExplanationsName(name) == <<"mapping.explanations.", SourceOf(name), ".", TargetOf(name), ".json">>

(* C17: for each profile pair of a successful run of run_mapping_pipeline  *)
(* the records of mapping.mra.<S>.<T>.json are in strictly ascending       *)
(* componentId order, and mapping.explanations.<S>.<T>.json is the list of *)
(* their explanationJson fields, same length, same order.                  *)
C17_MraSortedAndExplanationsAligned ==
    (Done /\ IsSuccess(result)) =>
        \A n \in {m \in DOMAIN result.artifacts : m[1] = "mapping.mra."} :
            /\ \A i, j \in DOMAIN result.artifacts[n] :
                  i < j => Rank(result.artifacts[n][i].componentId)
                              < Rank(result.artifacts[n][j].componentId)
            /\ ExplanationsName(n) \in DOMAIN result.artifacts
            /\ result.artifacts[ExplanationsName(n)] =
                  [i \in DOMAIN result.artifacts[n] |-> result.artifacts[n][i].explanationJson]

(* C17 witness: a successful run over two pairs whose MRA artifacts each   *)
(* hold the two records A1, B1, of different decisions, and whose           *)
(* explanations artifacts hold two entries.                                 *)
C17_Witness ==
    /\ Done
    /\ IsSuccess(result)
    /\ Cardinality({k \in DOMAIN result.artifacts : k[1] = "mapping.mra."}) = 2
    /\ \A n \in {k \in DOMAIN result.artifacts : k[1] = "mapping.mra."} :
          /\ Len(result.artifacts[n]) = 2
          /\ result.artifacts[n][1].decision # result.artifacts[n][2].decision
          /\ Len(result.artifacts[ExplanationsName(n)]) = 2

(* Some profile pair of the config names a profile that is not supplied. *)
NamesMissingProfile ==
    \E i \in DOMAIN mapping_config.profilePairs :
        \/ mapping_config.profilePairs[i].sourceProfileId \notin DOMAIN profiles
        \/ mapping_config.profilePairs[i].targetProfileId \notin DOMAIN profiles

(* C18: when the mapping config is valid and some profile pair names a     *)
(* source or target profile that is not a key of profiles, the result of   *)
(* run_mapping_pipeline is the envelope with error Validation and details  *)
(* {stage: profiles}, without artifacts, also when earlier pairs were      *)
(* processed.                                                              *)
C18_MissingProfileEnvelope ==
    (Done /\ validate_mapping_config(mapping_config) = "" /\ NamesMissingProfile) =>
        /\ IsErrorEnvelope(result)
        /\ result.error = "Validation"
        /\ result.details = <<"stage", "profiles">>
        /\ "artifacts" \notin DOMAIN result

----------------------------------------------------------------------------
(* validate_taxonomy called on its own (validation.py), on taxonomies that *)
(* combine the choices below independently of each other.                  *)

TaxonomyKeyLists == {<<>>, <<"Region">>, <<"Region", "Channel">>, <<"Region", "Region">>}

(* The key sets of placeholders and of categories. *)
TaxonomyKeySets == SUBSET {"Region", "Channel"}

LowerEU == <<"Region", "eu">>

(* The categories of Region: valid; lacking the ancestor Region.EU; holding *)
(* Region.EU twice up to case; holding the placeholder.                     *)
RegionCategoryLists == {<<R, EU, DE>>, <<R, DE>>, <<R, EU, LowerEU>>, <<R, EU, AnyR>>}

(* defaults: none; a category; a token that is no category; a key that may *)
(* be undeclared; the placeholder; a category up to case.                  *)
DefaultDicts ==
    {EmptyDict, Put(EmptyDict, "Region", EU), Put(EmptyDict, "Region", US),
     Put(EmptyDict, "Channel", B2B), Put(EmptyDict, "Region", AnyR),
     Put(EmptyDict, "Region", LowerEU)}

TaxonomyOf(keys, ph_keys, cat_keys, region_cats, defaults, case_sensitive) ==
    [keys |-> keys,
     placeholders |-> [k \in ph_keys |-> GoodTaxonomy.placeholders[k]],
     categories |-> [k \in cat_keys |-> IF k = "Region" THEN region_cats
                                         ELSE GoodTaxonomy.categories[k]],
     defaults |-> defaults,
     caseSensitive |-> case_sensitive]

InitTaxonomy ==
    /\ \E keys \in TaxonomyKeyLists :
       \E ph_keys \in TaxonomyKeySets :
       \E cat_keys \in TaxonomyKeySets :
       \E region_cats \in RegionCategoryLists :
       \E defaults \in DefaultDicts :
       \E case_sensitive \in BOOLEAN :
          ec_bundle = [taxonomy |-> TaxonomyOf(keys, ph_keys, cat_keys, region_cats,
                                               defaults, case_sensitive)]
    /\ iucs = <<>>
    /\ pc = "call_validate_taxonomy"
    /\ idx = 0
    /\ step1 = None
    /\ step2 = None
    /\ step3 = None
    /\ artifacts = EmptyDict
    /\ result = [pending |-> TRUE]
    /\ stages = <<>>
    /\ profiles = EmptyDict
    /\ mapping_config = EmptyDict

(* validate_taxonomy returns None or raises ValidationError(message). *)
TaxonomyOutcome(msg) == IF msg = "" THEN None ELSE Raised("ValidationError", msg)

CallValidateTaxonomy ==
    /\ pc = "call_validate_taxonomy"
    /\ stages' = Append(stages, <<"Validation">>)
    /\ result' = TaxonomyOutcome(validate_taxonomy(ec_bundle.taxonomy))
    /\ pc' = "done"
    /\ UNCHANGED <<profiles, mapping_config, ec_bundle, iucs, idx, step1, step2, step3, artifacts>>

NextTaxonomy == CallValidateTaxonomy

SpecTaxonomy == InitTaxonomy /\ [][NextTaxonomy]_vars

(* Two tokens are the same token under the case-sensitivity flag. *)
SameToken(a, b, case_sensitive) ==
    IF case_sensitive THEN a = b ELSE _norm(a, FALSE) = _norm(b, FALSE)

(* The conditions of section 4.1 on the category list of one key. *)
KeyAcceptable(taxonomy, key) ==
    LET cats == taxonomy.categories[key]
        cs == taxonomy.caseSensitive
    IN  /\ \A i, j \in DOMAIN cats : i # j => ~SameToken(cats[i], cats[j], cs)
        /\ \A i \in DOMAIN cats : \A n \in 1..(Len(cats[i]) - 1) :
               \E j \in DOMAIN cats : SameToken(cats[j], SubSeq(cats[i], 1, n), cs)
        /\ \A j \in DOMAIN cats : ~SameToken(cats[j], taxonomy.placeholders[key], cs)
        /\ key \in DOMAIN taxonomy.defaults =>
               \E j \in DOMAIN cats : SameToken(cats[j], taxonomy.defaults[key], cs)

(* The taxonomies that section 4.1 admits. *)
TaxonomyAcceptable(taxonomy) ==
    /\ Len(taxonomy.keys) > 0
    /\ \A i, j \in DOMAIN taxonomy.keys : i # j => taxonomy.keys[i] # taxonomy.keys[j]
    /\ DOMAIN taxonomy.placeholders = Range(taxonomy.keys)
    /\ DOMAIN taxonomy.categories = Range(taxonomy.keys)
    /\ DOMAIN taxonomy.defaults \subseteq Range(taxonomy.keys)
    /\ \A key \in Range(taxonomy.keys) : KeyAcceptable(taxonomy, key)

(* C19: validate_taxonomy returns normally exactly on the taxonomies whose *)
(* keys are a unique non-empty list, whose placeholders and categories     *)
(* have the key set of keys, whose defaults are keyed by a subset of keys, *)
(* whose category lists are duplicate-free under the case-sensitivity flag *)
(* and ancestor-closed, hold no placeholder and hold every default; on     *)
(* every other taxonomy it raises ValidationError.                         *)
C19_TaxonomyAcceptedIffWellFormed ==
    Done =>
        IF TaxonomyAcceptable(ec_bundle.taxonomy)
        THEN result = None
        ELSE "raised" \in DOMAIN result /\ result.raised = "ValidationError"

----------------------------------------------------------------------------
(* The ABIEs that are not the root and are the targetABIE of no ASBIE. *)
Disconnected(component_graph) ==
    {component_graph.abies[i].id : i \in DOMAIN component_graph.abies} \
        ({component_graph.rootABIE}
            \cup {component_graph.asbies[i].targetABIE : i \in DOMAIN component_graph.asbies})

(* C20: in every successful step 3 output the EC list of each ABIE that is *)
(* not the root and is the target of no ASBIE equals, as a list, the OC    *)
(* list step 2 produced for it.                                            *)
C20_DisconnectedAbieKeepsOc ==
    step3 # None /\ ~_is_envelope(step3) =>
        \A a \in Disconnected(Graph) : step3.ec.ABIE[a] = step2.oc.ABIE[a]

----------------------------------------------------------------------------
(* run_step1_prefilter_safe called on its own (step1.py), on assignments   *)
(* that repeat component ids and hold incomplete tuples, under policies    *)
(* whose legal tuples may carry keys outside policyKeys.                   *)

(* Number of entries of an assignments list. *)
MaxEntries == 3

NoDefaultTaxonomy == [GoodTaxonomy EXCEPT !.defaults = EmptyDict]

(* A default for the first key only. *)
RegionDefaultTaxonomy == [GoodTaxonomy EXCEPT !.defaults = Put(EmptyDict, "Region", EU)]

Step1Taxonomies == {GoodTaxonomy, LowerTaxonomy, NoDefaultTaxonomy, RegionDefaultTaxonomy}

(* One policy key; the first and the last legal tuple also bind Channel. *)
RegionPolicy ==
    [policyKeys |-> <<"Region">>,
     legalTuples |-> <<T(EU, B2C), << <<"Region", AnyR>> >>, T(R, B2B)>>]

Step1Policies == {TestPolicy, SwappedPolicy, RegionPolicy}

(* The tuple lists of one entry: two tuples equal up to case; tuples that  *)
(* lack Channel, both keys, Region; two complete tuples; no tuple.         *)
Step1TupleLists ==
    {<<T(EU, B2B), T(<<"Region", "eu">>, B2B)>>,
     << << <<"Region", DE>> >>, <<>>, << <<"Channel", B2C>> >> >>,
     <<T(US, B2C), T(EU, B2B)>>,
     <<>>}

Step1Entries == {Entry(cid, l) : cid \in {"B1", "S1"}, l \in Step1TupleLists}

Step1Assignments ==
    UNION {[1..n -> Step1Entries] : n \in 0..MaxEntries}

InitStep1 ==
    /\ \E t \in Step1Taxonomies : \E p \in Step1Policies : \E a \in Step1Assignments :
          ec_bundle = [taxonomy |-> t, policy |-> p, assignedBusinessContext |-> a]
    /\ iucs = <<>>
    /\ pc = "call_step1"
    /\ idx = 0
    /\ step1 = None
    /\ step2 = None
    /\ step3 = None
    /\ artifacts = EmptyDict
    /\ result = None
    /\ stages = <<>>
    /\ profiles = EmptyDict
    /\ mapping_config = EmptyDict

CallStep1 ==
    /\ pc = "call_step1"
    /\ stages' = Append(stages, <<"Step1">>)
    /\ step1' = run_step1_prefilter_safe(ec_bundle.assignedBusinessContext, ec_bundle.policy,
                                          ec_bundle.taxonomy)
    /\ pc' = "done"
    /\ UNCHANGED <<profiles, mapping_config, ec_bundle, iucs, idx, step2, step3, artifacts, result>>

NextStep1 == CallStep1

SpecStep1 == InitStep1 /\ [][NextStep1]_vars

(* The tuple completed from the defaults, key by key in taxonomy order;    *)
(* only used on tuples that every missing key has a default for.           *)
Completed(tuple, taxonomy) ==
    [i \in DOMAIN taxonomy.keys |->
        <<taxonomy.keys[i],
          IF HasKey(tuple, taxonomy.keys[i]) THEN Get(tuple, taxonomy.keys[i])
          ELSE taxonomy.defaults[taxonomy.keys[i]]>>]

(* The token meet of a and b is defined. *)
MeetDefined(a, b, placeholder, case_sensitive) ==
    \/ _norm(a, case_sensitive) = _norm(placeholder, case_sensitive)
    \/ _norm(b, case_sensitive) = _norm(placeholder, case_sensitive)
    \/ _is_ancestor(a, b, case_sensitive)
    \/ _is_ancestor(b, a, case_sensitive)

(* The 0-based indices of the legal tuples whose token meet with the tuple *)
(* is defined on every policy key, ascending.                              *)
MatchingIndices(tuple, policy, taxonomy) ==
    LET hit == SelectSeq([w \in DOMAIN policy.legalTuples |-> w],
                   LAMBDA w : \A k \in Range(policy.policyKeys) :
                       MeetDefined(Get(tuple, k), Get(policy.legalTuples[w], k),
                                   taxonomy.placeholders[k], taxonomy.caseSensitive))
    IN  [p \in DOMAIN hit |-> hit[p] - 1]

(* C21: for every kept input tuple the logged witnesses are, in ascending  *)
(* order, exactly the indices of the legal tuples whose token meet with    *)
(* the normalized tuple is defined on every policy key.                    *)
C21_WitnessesAreMatchingLegalTuples ==
    Done /\ ~_is_envelope(step1) =>
        \A i \in DOMAIN step1.log :
            step1.log[i].action = "kept-multi" =>
                step1.log[i].witnesses =
                    MatchingIndices(Completed(step1.log[i].tupleBefore, ec_bundle.taxonomy),
                                    ec_bundle.policy, ec_bundle.taxonomy)

(* The input tuples of the assignments in input order, with their ids. *)
InputTuples(assignments) ==
    Concat([i \in DOMAIN assignments |->
        [t \in DOMAIN assignments[i].tuples |->
            [componentId |-> assignments[i].componentId, tupleBefore |-> assignments[i].tuples[t]]]])

(* The narrowed tuples of the kept input tuples of one component, in input order. *)
KeptNarrowed(log, cid) ==
    Concat([k \in DOMAIN log |->
        IF log[k].componentId = cid /\ log[k].action = "kept-multi"
        THEN FirstOcc(RawNarrowed(log[k])) ELSE <<>>])

(* C22: the prefiltered list names, once each and in the order of first    *)
(* appearance in assignments, exactly the components that have a kept      *)
(* input tuple; a component's tuples are the exact dedup of the narrowed   *)
(* tuples of its kept input tuples in input order, and are never empty.    *)
C22_PrefilteredMergedInFirstSeenOrder ==
    Done /\ ~_is_envelope(step1) =>
        LET a == ec_bundle.assignedBusinessContext
            ids == FirstOcc([i \in DOMAIN a |-> a[i].componentId])
            kept == SelectSeq(ids, LAMBDA cid : KeptNarrowed(step1.log, cid) # <<>>)
        IN  /\ [k \in DOMAIN step1.log |->
                    [componentId |-> step1.log[k].componentId,
                     tupleBefore |-> step1.log[k].tupleBefore]] = InputTuples(a)
            /\ [i \in DOMAIN step1.prefiltered |-> step1.prefiltered[i].componentId] = kept
            /\ \A i \in DOMAIN step1.prefiltered :
                  /\ step1.prefiltered[i].tuples # <<>>
                  /\ step1.prefiltered[i].tuples =
                        FirstOcc(KeptNarrowed(step1.log, step1.prefiltered[i].componentId))

(* C22 witness: S1 is assigned before and after B1, both are emitted in    *)
(* that order, and S1's tuples merge two entries that repeat a tuple.      *)
C22_Witness ==
    /\ Done
    /\ ~_is_envelope(step1)
    /\ [i \in DOMAIN ec_bundle.assignedBusinessContext |->
           ec_bundle.assignedBusinessContext[i].componentId] = <<"S1", "B1", "S1">>
    /\ [i \in DOMAIN step1.prefiltered |-> step1.prefiltered[i].componentId] = <<"S1", "B1">>
    /\ ec_bundle.assignedBusinessContext[1].tuples # ec_bundle.assignedBusinessContext[3].tuples
    /\ Len(step1.prefiltered[1].tuples) >= 2
    /\ Len(step1.prefiltered[1].tuples) < Len(KeptNarrowed(step1.log, "S1"))

(* The taxonomy keys a tuple lacks, in taxonomy order. *)
MissingKeys(tuple, taxonomy) == SelectSeq(taxonomy.keys, LAMBDA k : ~HasKey(tuple, k))

(* Those of them that have no default. *)
MissingNoDefault(tuple, taxonomy) ==
    SelectSeq(MissingKeys(tuple, taxonomy), LAMBDA k : k \notin DOMAIN taxonomy.defaults)

(* What the log must say about one input tuple. *)
LoggedAsNormalized(entry, policy, taxonomy) ==
    LET missing == MissingKeys(entry.tupleBefore, taxonomy)
        nodef == MissingNoDefault(entry.tupleBefore, taxonomy)
    IN  IF nodef # <<>>
        THEN /\ entry.action = "dropped"
             /\ entry.reason = <<"missing-key-no-default:", nodef[1]>>
             /\ entry.tuplesAfter = <<>>
        ELSE /\ entry.fills = [i \in DOMAIN missing |-> <<missing[i], taxonomy.defaults[missing[i]]>>]
             /\ entry.action = "dropped" => entry.reason = <<"no-legal-match">>
             /\ entry.action # "dropped" =>
                    entry.tuplesAfter =
                        FirstOcc(WitnessLoop(Completed(entry.tupleBefore, taxonomy),
                                             policy, taxonomy).narrowed)

(* C23: step 1 returns no envelope and logs every input tuple; a tuple     *)
(* whose missing keys all have defaults is processed with the defaults on  *)
(* those keys and its fills are exactly those keys with their defaults; a  *)
(* tuple with a missing key that has no default is dropped with reason     *)
(* missing-key-no-default:<key> for the first such key in taxonomy order.  *)
C23_MissingKeysFilledOrTupleDropped ==
    Done =>
        /\ ~_is_envelope(step1)
        /\ [k \in DOMAIN step1.log |->
                [componentId |-> step1.log[k].componentId,
                 tupleBefore |-> step1.log[k].tupleBefore]]
              = InputTuples(ec_bundle.assignedBusinessContext)
        /\ \A k \in DOMAIN step1.log :
              LoggedAsNormalized(step1.log[k], ec_bundle.policy, ec_bundle.taxonomy)

(* C23 witness: a tuple lacking both keys is dropped for Region, the key   *)
(* without default, and a later tuple of the same run, of another          *)
(* component, is kept with a filled key.                                   *)
C23_Witness ==
    /\ Done
    /\ ~_is_envelope(step1)
    /\ \E i, j \in DOMAIN step1.log :
          /\ i < j
          /\ step1.log[i].action = "dropped"
          /\ step1.log[i].tupleBefore = <<>>
          /\ step1.log[i].reason = <<"missing-key-no-default:", "Region">>
          /\ step1.log[j].componentId # step1.log[i].componentId
          /\ step1.log[j].action = "kept-multi"
          /\ step1.log[j].fills # <<>>

----------------------------------------------------------------------------
(* The OC formulas of step 2 for one ABIE: its child ASBIEs and its own    *)
(* list.                                                                   *)
OcOfAbie(oc, prefiltered, abie, component_graph, taxonomy) ==
    LET kids == SortedSet(Range(abie.childrenASBIE))
        bkids == SortedSet(Range(abie.childrenBBIE))
    IN  /\ \A k \in DOMAIN kids :
              oc.ASBIE[kids[k]] =
                  FirstOcc(RawMeets(FirstOcc(PrefTuples(prefiltered, kids[k])),
                                    oc.ABIE[ById(component_graph.asbies, kids[k]).targetABIE],
                                    taxonomy))
        /\ oc.ABIE[abie.id] =
              FirstOcc(Concat([k \in DOMAIN kids |-> oc.ASBIE[kids[k]]])
                       \o Concat([k \in DOMAIN bkids |-> oc.BBIE[bkids[k]]]))

(* C24: for a validated component graph without a cycle among the edges    *)
(* sourceABIE -> targetABIE, step 2 returns an output in which every BBIE   *)
(* has its deduplicated prefiltered tuples, every ASBIE listed as a child   *)
(* has the deduplicated defined meets, in left-major order, of its          *)
(* prefiltered tuples with the OC of its targetABIE, and every ABIE has the *)
(* dedup of the OC lists of its child ASBIEs, then of its child BBIEs, each *)
(* in ascending id order.                                                   *)
C24_OcByFormulas ==
    (step2 # None /\ Validated /\ ~HasAsbieCycle(Graph)) =>
        /\ ~_is_envelope(step2)
        /\ \A i \in DOMAIN Graph.bbies :
              step2.oc.BBIE[Graph.bbies[i].id] =
                  FirstOcc(PrefTuples(step1.prefiltered, Graph.bbies[i].id))
        /\ \A i \in DOMAIN Graph.abies :
              OcOfAbie(step2.oc, step1.prefiltered, Graph.abies[i], Graph, ec_bundle.taxonomy)

----------------------------------------------------------------------------
(* The ids of the ASBIEs whose targetABIE is abie_id, ascending. *)
IncomingAsbies(component_graph, abie_id) ==
    SelectSeq(IdOrder, LAMBDA x : \E i \in DOMAIN component_graph.asbies :
                  /\ component_graph.asbies[i].id = x
                  /\ component_graph.asbies[i].targetABIE = abie_id)

(* The gate of an ABIE by the rule of the top-down pass; ec holds the EC   *)
(* lists of the pass, before the final collapse.                           *)
GateByRule(abie_id, ec, oc, component_graph, taxonomy, iuc) ==
    IF abie_id = component_graph.rootABIE
    THEN _collapse_ancestor_preferred(
             _t_intersect(oc.ABIE[abie_id], _dedup_exact_ordered(iuc.tuples), taxonomy).val,
             taxonomy)
    ELSE IF IncomingAsbies(component_graph, abie_id) # <<>>
    THEN _dedup_exact_ordered(
             Concat([k \in DOMAIN IncomingAsbies(component_graph, abie_id) |->
                        ec.ASBIE[IncomingAsbies(component_graph, abie_id)[k]]]))
    ELSE oc.ABIE[abie_id]

(* The emitted EC of every ABIE follows the gate rule, given the EC lists  *)
(* pass of the top-down pass.                                              *)
AbiesFollowGateRule(ec, pass, oc, component_graph, taxonomy, iuc) ==
    \A i \in DOMAIN component_graph.abies :
        ec.ABIE[component_graph.abies[i].id] =
            _collapse_ancestor_preferred(
                _t_intersect(oc.ABIE[component_graph.abies[i].id],
                             GateByRule(component_graph.abies[i].id, pass, oc, component_graph,
                                        taxonomy, iuc),
                             taxonomy).val,
                taxonomy)

(* C25: in every successful step 3 output, EC[ABIE] is the collapse of the *)
(* meet of OC[ABIE] with its gate, where the root's gate is the seed, the  *)
(* gate of another ABIE with incoming ASBIEs is the dedup of their EC      *)
(* lists concatenated in ascending id order, as the pass left them, and    *)
(* the gate of any other ABIE is its OC.                                   *)
C25_EcAbieByGateRule ==
    pc = "step4" =>
        AbiesFollowGateRule(step3.ec,
                            Step3Propagate(step2.oc, Graph, ec_bundle.taxonomy, iucs[idx]).val,
                            step2.oc, Graph, ec_bundle.taxonomy, iucs[idx])

(* C25 witness: step 3 succeeded on a graph whose root has an incoming     *)
(* ASBIE with a non-empty EC that differs from the seed, and whose other   *)
(* ABIE has a non-empty EC.                                                *)
C25_Witness ==
    /\ pc = "step4"
    /\ IncomingAsbies(Graph, Graph.rootABIE) # <<>>
    /\ \E k \in DOMAIN IncomingAsbies(Graph, Graph.rootABIE) :
          /\ step3.ec.ASBIE[IncomingAsbies(Graph, Graph.rootABIE)[k]] # <<>>
          /\ step3.ec.ASBIE[IncomingAsbies(Graph, Graph.rootABIE)[k]] # step3.ec.ABIE[Graph.rootABIE]
    /\ step3.ec.ABIE[Graph.rootABIE] # <<>>
    /\ \A i \in DOMAIN Graph.abies : step3.ec.ABIE[Graph.abies[i].id] # <<>>

----------------------------------------------------------------------------
(* The ids of the graph's components of one kind. *)
GraphIds(component_graph, kind) ==
    CASE kind = "ABIE" -> {component_graph.abies[i].id : i \in DOMAIN component_graph.abies}
      [] kind = "ASBIE" -> {component_graph.asbies[i].id : i \in DOMAIN component_graph.asbies}
      [] kind = "BBIE" -> {component_graph.bbies[i].id : i \in DOMAIN component_graph.bbies}

(* EC[kind][id] is a non-empty list. *)
EcNonEmpty(ec, kind, id) ==
    /\ kind \in DOMAIN ec
    /\ id \in DOMAIN ec[kind]
    /\ Len(ec[kind][id]) > 0

(* C26: in every schema run_step4_profile_schema returns, includes[kind]   *)
(* lists, once each and in ascending id order, exactly the components of   *)
(* the graph of that kind whose EC is a non-empty list, each with its EC   *)
(* list as ecTuples; the root ABIE is listed only when isRealizable.       *)
C26_IncludesAreNonEmptyEcComponents ==
    Step4Returned =>
        /\ \A kind \in EcKinds :
              /\ [i \in DOMAIN result.includes[kind] |-> result.includes[kind][i].id] =
                    SelectSeq(IdOrder, LAMBDA x : /\ x \in GraphIds(Graph, kind)
                                                  /\ EcNonEmpty(step3.ec, kind, x))
              /\ \A i \in DOMAIN result.includes[kind] :
                    result.includes[kind][i].ecTuples = step3.ec[kind][result.includes[kind][i].id]
        /\ (\E i \in DOMAIN result.includes.ABIE : result.includes.ABIE[i].id = result.rootABIE)
              => result.isRealizable

(* C26 witness: a realizable schema that includes the root and two BBIEs,  *)
(* leaves out an ABIE whose EC list is empty, and whose EC names a BBIE    *)
(* with a non-empty list that is no component of the graph.                *)
C26_Witness ==
    /\ Step4Returned
    /\ result.isRealizable
    /\ \E i \in DOMAIN result.includes.ABIE : result.includes.ABIE[i].id = result.rootABIE
    /\ Len(result.includes.BBIE) = 2
    /\ \E a \in GraphIds(Graph, "ABIE") : a \in DOMAIN step3.ec.ABIE /\ step3.ec.ABIE[a] = <<>>
    /\ \E b \in DOMAIN step3.ec.BBIE : b \notin GraphIds(Graph, "BBIE") /\ step3.ec.BBIE[b] # <<>>
    /\ result.includes.ASBIE # <<>>

----------------------------------------------------------------------------
(* Two tuples whose tokens are equal on every taxonomy key after lowercasing. *)
EqualUpToCase(a, b, taxonomy) ==
    \A i \in DOMAIN taxonomy.keys :
        LET key == taxonomy.keys[i]
        IN  /\ HasKey(a, key)
            /\ HasKey(b, key)
            /\ _norm(Get(a, key), FALSE) = _norm(Get(b, key), FALSE)

NoDupUpToCase(l, taxonomy) ==
    \A i, j \in DOMAIN l : EqualUpToCase(l[i], l[j], taxonomy) => i = j

(* C27: when taxonomy.rules.caseSensitive is false, no tuple list emitted  *)
(* by Step 1 (a log entry's tuplesAfter, a component's prefiltered list)   *)
(* holds two tuples whose tokens are equal on every key after lowercasing. *)
C27_DedupHonoursCaseFlag ==
    (Done /\ ~_is_envelope(step1) /\ ~ec_bundle.taxonomy.caseSensitive) =>
        /\ \A i \in DOMAIN step1.log :
              NoDupUpToCase(step1.log[i].tuplesAfter, ec_bundle.taxonomy)
        /\ \A i \in DOMAIN step1.prefiltered :
              NoDupUpToCase(step1.prefiltered[i].tuples, ec_bundle.taxonomy)

----------------------------------------------------------------------------
(* The state right after the Step3 call for iucs[idx]. *)
JustRanStep3 == stages # <<>> /\ stages[Len(stages)][1] = "Step3"

OmitsKey(tuple, taxonomy) == \E i \in DOMAIN taxonomy.keys : ~HasKey(tuple, taxonomy.keys[i])

FirstOmittedIndex(tuple, taxonomy) ==
    MinOf({i \in DOMAIN taxonomy.keys : ~HasKey(tuple, taxonomy.keys[i])})

(* The OC tuple has a defined token meet with the IUC tuple on every key   *)
(* that precedes the IUC tuple's first omitted key.                        *)
MeetsBeforeOmitted(oc_tuple, iuc_tuple, taxonomy) ==
    \A i \in 1..(FirstOmittedIndex(iuc_tuple, taxonomy) - 1) :
        _intersect_token(Get(oc_tuple, taxonomy.keys[i]), Get(iuc_tuple, taxonomy.keys[i]),
                         taxonomy.placeholders[taxonomy.keys[i]], taxonomy.caseSensitive) # NoToken

(* The incomplete IUC tuples that some tuple of OC[root] reaches. *)
ReachedIncomplete(iuc, oc_root, taxonomy) ==
    SelectSeq(iuc.tuples, LAMBDA t :
        /\ OmitsKey(t, taxonomy)
        /\ \E j \in DOMAIN oc_root : MeetsBeforeOmitted(oc_root[j], t, taxonomy))

MissingFieldEnvelope(key) ==
    [error |-> "Step3", reason |-> <<"missing required field: ", key>>,
     details |-> <<"stage", "runtime">>]

WithoutIncomplete(iuc, taxonomy) ==
    [iuc EXCEPT !.tuples = SelectSeq(iuc.tuples, LAMBDA t : ~OmitsKey(t, taxonomy))]

(* C28: right after the pipeline's Step3 call for an IUC (its tuples have  *)
(* passed validation, omitted keys included), the pipeline has returned    *)
(* the Step3 envelope 'missing required field: <key>', stage runtime,      *)
(* exactly when some tuple of OC[root] has a defined token meet with an    *)
(* incomplete IUC tuple on every key before that tuple's first omitted     *)
(* key, <key> being that omitted key; otherwise Step 3 succeeds with the   *)
(* EC of the IUC without its incomplete tuples and the run goes on.        *)
C28_MissingIucKeyEnvelope ==
    JustRanStep3 =>
        LET taxonomy == ec_bundle.taxonomy
            reached == ReachedIncomplete(iucs[idx], step2.oc.ABIE[Graph.rootABIE], taxonomy)
        IN  /\ Validated
            /\ reached # <<>> <=>
                  \E i \in DOMAIN taxonomy.keys : step3 = MissingFieldEnvelope(taxonomy.keys[i])
            /\ reached # <<>> =>
                  /\ \E r \in DOMAIN reached :
                        step3 = MissingFieldEnvelope(
                                    taxonomy.keys[FirstOmittedIndex(reached[r], taxonomy)])
                  /\ pc = "done"
                  /\ result = step3
            /\ reached = <<>> =>
                  /\ ~_is_envelope(step3)
                  /\ step3 = run_step3_ec_safe(step2.oc, Graph, taxonomy,
                                                WithoutIncomplete(iucs[idx], taxonomy))
                  /\ pc = "step4"

(* C28 witness: the first IUC holds a tuple omitting Channel that no tuple *)
(* of the non-empty OC[root] reaches, so its Step 3 succeeded; the second  *)
(* IUC's tuple omits Region and the pipeline returned the envelope.        *)
C28_Witness ==
    /\ JustRanStep3
    /\ idx = 2
    /\ \E j \in DOMAIN iucs[1].tuples : OmitsKey(iucs[1].tuples[j], ec_bundle.taxonomy)
    /\ Step3Key(iucs[1]) \in DOMAIN artifacts
    /\ step2.oc.ABIE[Graph.rootABIE] # <<>>
    /\ pc = "done"
    /\ result = MissingFieldEnvelope("Region")

----------------------------------------------------------------------------
(* The tuple meet of two complete tuples is defined: the token meet is     *)
(* defined on every taxonomy key.                                          *)
TupleMeetDefined(a, b, taxonomy) ==
    \A i \in DOMAIN taxonomy.keys :
        MeetDefined(Get(a, taxonomy.keys[i]), Get(b, taxonomy.keys[i]),
                    taxonomy.placeholders[taxonomy.keys[i]], taxonomy.caseSensitive)

(* Some tuple of OC[rootABIE] meets some tuple of the IUC. *)
RootMeetsIuc(oc, component_graph, taxonomy, iuc) ==
    \E j \in DOMAIN oc.ABIE[component_graph.rootABIE] : \E t \in DOMAIN iuc.tuples :
        TupleMeetDefined(oc.ABIE[component_graph.rootABIE][j], iuc.tuples[t], taxonomy)

IsComplete(iuc, taxonomy) == \A t \in DOMAIN iuc.tuples : ~OmitsKey(iuc.tuples[t], taxonomy)

(* C29: in every successful pipeline run, for every IUC whose tuples are   *)
(* complete, the profile's isRealizable is true exactly when some tuple of *)
(* OC[rootABIE] and some tuple of the IUC have a defined meet, and so is   *)
(* the non-emptiness of the emitted EC[root]; no emitted EC list is empty  *)
(* when the list before the final collapse was not.                        *)
C29_RealizableIffRootMeetsIuc ==
    (Done /\ IsSuccess(result)) =>
        \A i \in DOMAIN iucs :
            IsComplete(iucs[i], ec_bundle.taxonomy) =>
                /\ result.artifacts[Step4Key(iucs[i])].isRealizable
                      <=> RootMeetsIuc(step2.oc, Graph, ec_bundle.taxonomy, iucs[i])
                /\ result.artifacts[Step3Key(iucs[i])].ec.ABIE[Graph.rootABIE] # <<>>
                      <=> RootMeetsIuc(step2.oc, Graph, ec_bundle.taxonomy, iucs[i])
                /\ \A kind \in EcKinds :
                      \A c \in DOMAIN result.artifacts[Step3Key(iucs[i])].ec[kind] :
                          result.artifacts[Step3Key(iucs[i])].ec[kind][c] = <<>>
                          <=> Step3Propagate(step2.oc, Graph, ec_bundle.taxonomy,
                                             iucs[i]).val[kind][c] = <<>>

(* C29 witness: a successful run over two complete IUCs and a non-empty    *)
(* OC[root]: one profile is realizable, with an EC[root] that the final    *)
(* collapse shortened, the other is not.                                   *)
C29_Witness ==
    /\ Done
    /\ IsSuccess(result)
    /\ Len(iucs) = 2
    /\ \A i \in DOMAIN iucs : IsComplete(iucs[i], ec_bundle.taxonomy)
    /\ step2.oc.ABIE[Graph.rootABIE] # <<>>
    /\ \E i \in DOMAIN iucs : ~result.artifacts[Step4Key(iucs[i])].isRealizable
    /\ \E i \in DOMAIN iucs :
          /\ result.artifacts[Step4Key(iucs[i])].isRealizable
          /\ Len(result.artifacts[Step3Key(iucs[i])].ec.ABIE[Graph.rootABIE])
                < Len(Step3Propagate(step2.oc, Graph, ec_bundle.taxonomy,
                                     iucs[i]).val.ABIE[Graph.rootABIE])

----------------------------------------------------------------------------
(* The ids of the ABIEs of the graph that list id as a child of that kind. *)
ListingAbies(component_graph, kind, id) ==
    {component_graph.abies[i].id : i \in
        {j \in DOMAIN component_graph.abies :
            id \in Range(IF kind = "BBIE" THEN component_graph.abies[j].childrenBBIE
                         ELSE component_graph.abies[j].childrenASBIE)}}

IncludedIds(schema, kind) ==
    {schema.includes[kind][i].id : i \in DOMAIN schema.includes[kind]}

(* C30: in every profile schema the pipeline stores, each included BBIE    *)
(* and ASBIE is listed as a child by an ABIE that is itself included; and  *)
(* a BBIE or ASBIE of the graph that no ABIE lists has an empty EC list    *)
(* and is not included.                                                    *)
C30_IncludedChildHasIncludedParent ==
    \A i \in DOMAIN iucs :
        Step4Key(iucs[i]) \in DOMAIN artifacts =>
            \A kind \in {"BBIE", "ASBIE"} :
                /\ \A id \in IncludedIds(artifacts[Step4Key(iucs[i])], kind) :
                      ListingAbies(Graph, kind, id)
                          \cap IncludedIds(artifacts[Step4Key(iucs[i])], "ABIE") # {}
                /\ \A id \in GraphIds(Graph, kind) :
                      ListingAbies(Graph, kind, id) = {} =>
                          /\ artifacts[Step3Key(iucs[i])].ec[kind][id] = <<>>
                          /\ id \notin IncludedIds(artifacts[Step4Key(iucs[i])], kind)

(* C30 witness: a stored realizable schema with an included BBIE and an    *)
(* included ASBIE, on a graph with a BBIE that no ABIE lists and whose     *)
(* assigned tuples step 1 kept.                                            *)
C30_Witness ==
    \E i \in DOMAIN iucs :
        /\ Step4Key(iucs[i]) \in DOMAIN artifacts
        /\ artifacts[Step4Key(iucs[i])].isRealizable
        /\ artifacts[Step4Key(iucs[i])].includes.BBIE # <<>>
        /\ artifacts[Step4Key(iucs[i])].includes.ASBIE # <<>>
        /\ \E id \in GraphIds(Graph, "BBIE") :
              /\ ListingAbies(Graph, "BBIE", id) = {}
              /\ \E p \in DOMAIN step1.prefiltered :
                    step1.prefiltered[p].componentId = id /\ step1.prefiltered[p].tuples # <<>>

====
